---- MODULE Spec2Model ----
(***************************************************************************)
(* Model of the e-shajrah family tree: the person graph mutation layer     *)
(* (useFamilyTree), the GEDCOM codec, the relationship resolver and the    *)
(* traversal utilities.                                                    *)
(***************************************************************************)
EXTENDS Integers, Sequences, FiniteSets, TLC

\* ------------------------------------------------------------------ bounds
\* number of persons addPerson may create in one behaviour (uuidv4 never
\* repeats, so ids are 1..MaxPersons in order of creation)
MaxPersons == 3
\* parentIds is [fatherId, motherId]: at most two entries
MaxParents == 2
\* longest marriages list a caller passes to updatePerson
MaxMarriages == 2
\* number of addPerson / updatePerson / deletePerson calls in one behaviour
MaxOps == 3
\* largest person list handed to exportToGedcom
MaxGedPersons == 3
\* number of links (a child's parents, a couple's marriage, a gender other
\* than male) in such a list
MaxLinks == 2
\* longest GEDCOM file handed to parseGedcom, in lines
MaxLines == 3
\* number of lines of the FAM records of a file of families
MaxFamLines == 5
\* number of persons and of links (one parent of one person, one couple's
\* marriage) in a list whose traversals are followed step by step
MaxTravPersons == 2
MaxTravLinks == 2
\* number of persons and of links in a list handed to findRelationship
MaxRelPersons == 3
MaxRelLinks == 3
\* number of persons and of links in a list that may name persons without a
\* record or hold a marriage on one side only
MaxLoosePersons == 3
MaxLooseLinks == 2
\* generations between a common ancestor and the lowest person of a line
MaxDepth == 5

\* number of trees uuidv4 names in one behaviour
MaxTrees == 4
\* number of calls of the store that await a write at the same time
MaxPending == 2
\* number of trees uuidv4 names while calls of the store interleave
MaxStoreTrees == 2
\* longest queue a traversal can hold; the loops as written stay below it
MaxQueue == MaxRelPersons * (MaxRelPersons + 1)

\* ------------------------------------------------------------- data model
\* the empty string: an id slot the form leaves unselected
NoId == 0
Gender == {"Male", "Female", "Other"}
\* an absent (undefined) date or place
NoText == ""
\* the status / date / place a caller can give a marriage
MarriageDetails ==
    { [status |-> "Married", date |-> NoText, place |-> NoText],
      [status |-> "Divorced", date |-> "1990", place |-> "Lahore"] }

Range(s) == { s[i] : i \in 1..Len(s) }

SeqsUpTo(S, n) == UNION { [1..k -> S] : k \in 0..n }

Marriage(spouseId, d) ==
    [spouseId |-> spouseId, status |-> d.status, date |-> d.date, place |-> d.place]

\* ---------------------------------------------------------------- state
VARIABLES
    people,     \* the active tree's person list
    nextId,     \* the next id uuidv4 hands out
    lastOp,     \* the last mutation that ran, and the id it was given
    ops,        \* number of mutations that ran
    hasActiveTree,  \* whether data.activeTreeId names a tree of data.trees
    saved,      \* saveTree: the number of calls, the people of the last tree given
    gedPc,      \* codec run: "idle", "tree", "exported", "file" or "parsed"
    gedPeople,  \* the person list exportToGedcom is given
    gedText,    \* the GEDCOM text: exportToGedcom's result or a file's content
    gedParsed,  \* parseGedcom's result
    relPeople,  \* the person list a traversal is given (allPeople)
    trav,       \* the running traversal: its arguments, loop variables, result
    view,       \* the tree view: focus, open ancestors and children, render root
    trees,      \* data.trees of the hook: tree id -> tree
    activeTreeId,   \* data.activeTreeId of the hook
    dbTrees,    \* the trees object store of IndexedDB
    dbActiveTreeId, \* the 'activeTreeId' entry of the app state store
    imp,        \* the import in flight: its position, its tree, the state before
    nextTreeId, \* the next tree id uuidv4 hands out
    nextPersonId,   \* the next person id uuidv4 hands out to parseGedcom
    importLog,  \* the imports that set a tree: the file's text, the tree's id
    pending,    \* the calls that await a write, in the order their writes were issued
    rendered    \* the trees and the activeTreeId of the last render, which a handler reads

treeVars == <<people, nextId, lastOp, ops, hasActiveTree, saved>>
gedVars == <<gedPc, gedPeople, gedText, gedParsed>>
relVars == <<relPeople, trav, view>>
impVars == <<trees, activeTreeId, dbTrees, dbActiveTreeId, imp, nextTreeId,
             nextPersonId, importLog, pending, rendered>>
vars == <<treeVars, gedVars, relVars, impVars>>

\* ------------------------------------------------------- array helpers
\* Array.prototype.findIndex on the id; 0 stands for -1
FindIndex(ps, id) ==
    IF \E i \in 1..Len(ps) : ps[i].id = id
    THEN CHOOSE i \in 1..Len(ps) :
            ps[i].id = id /\ \A j \in 1..(i - 1) : ps[j].id # id
    ELSE 0

Includes(s, x) == \E i \in 1..Len(s) : s[i] = x

HasSpouse(p, id) == \E i \in 1..Len(p.marriages) : p.marriages[i].spouseId = id

WithoutId(s, id) == SelectSeq(s, LAMBDA x : x # id)

WithoutSpouse(ms, id) == SelectSeq(ms, LAMBDA m : m.spouseId # id)

\* ------------------------------------------------ relationship helpers
AddSpouseRelationship(p1Id, p2Id, ps) ==
    LET p1Index == FindIndex(ps, p1Id)
        p2Index == FindIndex(ps, p2Id)
    IN  IF p1Index = 0 \/ p2Index = 0 THEN ps
        ELSE
          LET ps1 == IF ~HasSpouse(ps[p1Index], p2Id)
                     THEN [ps EXCEPT ![p1Index].marriages =
                              Append(@, Marriage(p2Id, [status |-> "Married",
                                                        date |-> NoText,
                                                        place |-> NoText]))]
                     ELSE ps
          IN  IF ~HasSpouse(ps1[p2Index], p1Id)
              THEN [ps1 EXCEPT ![p2Index].marriages =
                       Append(@, Marriage(p1Id, [status |-> "Married",
                                                 date |-> NoText,
                                                 place |-> NoText]))]
              ELSE ps1

AddChildToParent(childId, parentId, ps) ==
    LET parentIndex == FindIndex(ps, parentId)
    IN  IF parentIndex # 0 /\ ~Includes(ps[parentIndex].childrenIds, childId)
        THEN [ps EXCEPT ![parentIndex].childrenIds = Append(@, childId)]
        ELSE ps

RemoveChildFromParent(childId, parentId, ps) ==
    LET parentIndex == FindIndex(ps, parentId)
    IN  IF parentIndex # 0
        THEN [ps EXCEPT ![parentIndex].childrenIds = WithoutId(@, childId)]
        ELSE ps

\* parentIds.forEach(parentId => addChildToParent(childId, parentId, ps))
RECURSIVE AddChildToParents(_, _, _)
AddChildToParents(childId, parentIds, ps) ==
    IF parentIds = <<>> THEN ps
    ELSE AddChildToParents(childId, Tail(parentIds),
                           AddChildToParent(childId, Head(parentIds), ps))

\* parentIds.forEach(parentId => removeChildFromParent(childId, parentId, ps))
RECURSIVE RemoveChildFromParents(_, _, _)
RemoveChildFromParents(childId, parentIds, ps) ==
    IF parentIds = <<>> THEN ps
    ELSE RemoveChildFromParents(childId, Tail(parentIds),
                                RemoveChildFromParent(childId, Head(parentIds), ps))

\* childrenIds.forEach: strip personId from each child's parentIds
RECURSIVE RemoveParentFromChildren(_, _, _)
RemoveParentFromChildren(personId, childrenIds, ps) ==
    IF childrenIds = <<>> THEN ps
    ELSE LET childIndex == FindIndex(ps, Head(childrenIds))
             ps1 == IF childIndex # 0
                    THEN [ps EXCEPT ![childIndex].parentIds = WithoutId(@, personId)]
                    ELSE ps
         IN  RemoveParentFromChildren(personId, Tail(childrenIds), ps1)

\* for each listed spouse id: strip the entries that point back at personId
RECURSIVE RemoveFromSpouses(_, _, _)
RemoveFromSpouses(personId, spouseIds, ps) ==
    IF spouseIds = <<>> THEN ps
    ELSE LET spouseIndex == FindIndex(ps, Head(spouseIds))
             ps1 == IF spouseIndex # 0
                    THEN [ps EXCEPT ![spouseIndex].marriages = WithoutSpouse(@, personId)]
                    ELSE ps
         IN  RemoveFromSpouses(personId, Tail(spouseIds), ps1)

\* for each marriage of the new list: create or overwrite the reciprocal entry
RECURSIVE UpsertReciprocals(_, _, _)
UpsertReciprocals(personId, newMarriages, ps) ==
    IF newMarriages = <<>> THEN ps
    ELSE LET marriage == Head(newMarriages)
             spouseIndex == FindIndex(ps, marriage.spouseId)
             reciprocalMarriage == [marriage EXCEPT !.spouseId = personId]
             ps1 ==
               IF spouseIndex = 0 THEN ps
               ELSE LET ms == ps[spouseIndex].marriages
                    IN  IF \E i \in 1..Len(ms) : ms[i].spouseId = personId
                        THEN LET existingMarriageIndex ==
                                   CHOOSE i \in 1..Len(ms) :
                                      /\ ms[i].spouseId = personId
                                      /\ \A j \in 1..(i - 1) : ms[j].spouseId # personId
                             IN  [ps EXCEPT ![spouseIndex].marriages[existingMarriageIndex]
                                                = reciprocalMarriage]
                        ELSE [ps EXCEPT ![spouseIndex].marriages
                                                = Append(@, reciprocalMarriage)]
         IN  UpsertReciprocals(personId, Tail(newMarriages), ps1)

SpouseIds(ms) == [i \in 1..Len(ms) |-> ms[i].spouseId]

\* ------------------------------------------------------------ operations
\* addPerson(personData): the list after the call
AddPersonResult(ps, newId, gender, parentIds) ==
    LET newPerson == [id |-> newId, gender |-> gender, parentIds |-> parentIds,
                      childrenIds |-> <<>>, marriages |-> <<>>]
        newPeople == Append(ps, newPerson)
    IN  IF Len(parentIds) = 2
        THEN AddChildToParent(newId, parentIds[2],
               AddChildToParent(newId, parentIds[1],
                 AddSpouseRelationship(parentIds[1], parentIds[2], newPeople)))
        ELSE newPeople

\* the parent branch of updatePerson
UpdateParents(ps, personId, updatedData) ==
    LET personIndex == FindIndex(ps, personId)
        oldPerson == ps[personIndex]
    IN  IF updatedData.hasParentIds /\ oldPerson.parentIds # updatedData.parentIds
        THEN LET removed == RemoveChildFromParents(personId, oldPerson.parentIds, ps)
                 married == IF Len(updatedData.parentIds) = 2
                            THEN AddSpouseRelationship(updatedData.parentIds[1],
                                                       updatedData.parentIds[2], removed)
                            ELSE removed
             IN  AddChildToParents(personId, updatedData.parentIds, married)
        ELSE ps

\* the marriage branch of updatePerson
UpdateMarriages(ps, personId, updatedData) ==
    LET personIndex == FindIndex(ps, personId)
        oldMarriages == ps[personIndex].marriages
        newMarriages == updatedData.marriages
        oldSpouseIds == SpouseIds(oldMarriages)
        newSpouseIds == SpouseIds(newMarriages)
        removedSpouseIds == SelectSeq(oldSpouseIds, LAMBDA id : ~Includes(newSpouseIds, id))
    IN  IF updatedData.hasMarriages
        THEN UpsertReciprocals(personId, newMarriages,
                               RemoveFromSpouses(personId, removedSpouseIds, ps))
        ELSE ps

\* newPeople[personIndex] = { ...oldPerson, ...updatedData }
Overwrite(oldPerson, updatedData) ==
    [oldPerson EXCEPT
        !.parentIds = IF updatedData.hasParentIds THEN updatedData.parentIds ELSE @,
        !.marriages = IF updatedData.hasMarriages THEN updatedData.marriages ELSE @]

\* updatePerson(personId, updatedData): the list after the call
UpdatePersonResult(ps, personId, updatedData) ==
    LET personIndex == FindIndex(ps, personId)
    IN  IF personIndex = 0 THEN ps
        ELSE LET newPeople == UpdateMarriages(UpdateParents(ps, personId, updatedData),
                                              personId, updatedData)
             IN  [newPeople EXCEPT ![personIndex] = Overwrite(@, updatedData)]

\* deletePerson(personId): the list after the call
DeletePersonResult(ps, personId) ==
    LET personIndex == FindIndex(ps, personId)
    IN  IF personIndex = 0 THEN ps
        ELSE LET personToDelete == ps[personIndex]
                 ps1 == RemoveChildFromParents(personId, personToDelete.parentIds, ps)
                 ps2 == RemoveParentFromChildren(personId, personToDelete.childrenIds, ps1)
                 ps3 == RemoveFromSpouses(personId, SpouseIds(personToDelete.marriages), ps2)
             IN  SelectSeq(ps3, LAMBDA p : p.id # personId)

\* ------------------------------------------------------------ the inputs
\* ids a caller can name: every id handed out so far (deleted ones included)
KnownIds == 1..(nextId - 1)

ParentIdInputsOf(ids) == SeqsUpTo(ids \cup {NoId}, MaxParents)

ParentIdInputs == ParentIdInputsOf(KnownIds)

MarriageInputsOf(ids) ==
    SeqsUpTo({ Marriage(s, d) : s \in ids, d \in MarriageDetails }, MaxMarriages)

MarriageInputs == MarriageInputsOf(KnownIds)

\* the patches a caller passes: a new parentIds list or a new marriages list.
\* A patch that carries both acts as the parentIds patch followed by the
\* marriages patch: the marriage branch reads nothing the final overwrite of
\* parentIds changes.
PatchesOf(ids) ==
    { [hasParentIds |-> TRUE, parentIds |-> pids,
       hasMarriages |-> FALSE, marriages |-> <<>>] : pids \in ParentIdInputsOf(ids) }
    \cup
    { [hasParentIds |-> FALSE, parentIds |-> <<>>,
       hasMarriages |-> TRUE, marriages |-> ms] : ms \in MarriageInputsOf(ids) }

Patches == PatchesOf(KnownIds)

\* the lists of two persons: two addPerson calls without parents, then no
\* call or one updatePerson call
CoupleLists ==
    LET couple == AddPersonResult(AddPersonResult(<<>>, 1, "Male", <<>>),
                                  2, "Male", <<>>)
    IN  {couple} \cup { UpdatePersonResult(couple, personId, updatedData) :
                           personId \in 1..2, updatedData \in PatchesOf(1..2) }

\* ---------------------------------------------------------------- actions
GedIdle ==
    /\ gedPc = "idle"
    /\ gedPeople = <<>>
    /\ gedText = [threw |-> FALSE, lines |-> <<>>]
    /\ gedParsed = [threw |-> FALSE, people |-> <<>>]

EmptyTree ==
    /\ people = <<>>
    /\ nextId = 1
    /\ lastOp = [op |-> "none", id |-> NoId]
    /\ ops = 0
    /\ hasActiveTree = TRUE
    /\ saved = [calls |-> 0, people |-> <<>>]

\* the hook with an empty active tree, or with no tree at all (the last tree
\* was deleted)
TreeInit ==
    /\ people = <<>>
    /\ nextId = 1
    /\ lastOp = [op |-> "none", id |-> NoId]
    /\ ops = 0
    /\ hasActiveTree \in BOOLEAN
    /\ saved = [calls |-> 0, people |-> <<>>]

\* no traversal is running
NoResult ==
    [type |-> "pending", lca |-> NoId, path1 |-> <<>>, path2 |-> <<>>,
     path |-> <<>>, description |-> <<>>]

TravIdle ==
    [fn |-> "none", pc |-> "idle", person1Id |-> NoId, person2Id |-> NoId,
     queue |-> <<>>, visited |-> {}, results |-> <<>>, p1Ancestors |-> {},
     currentId |-> NoId, pathQueue |-> <<>>, pathVisited |-> {},
     path1 |-> <<>>, path2 |-> <<>>, result |-> NoResult]

\* the tree view as it is mounted: nobody focused, nothing opened; the
\* render root of nobody is null
ViewIdle ==
    [focusedPersonId |-> NoId, ancestorsVisibleFor |-> {}, childrenVisibleFor |-> {},
     pc |-> "done", finalRoot |-> NoId, current |-> NoId, renderRootId |-> NoId]

RelIdle ==
    /\ relPeople = <<>>
    /\ trav = TravIdle
    /\ view = ViewIdle

\* the hook before loadData has run, no import in flight
NoTree == [id |-> NoId, name |-> [base |-> NoText, restored |-> NoText], people |-> <<>>]

\* useState({ trees: {}, activeTreeId: '' }) as the first render shows it
NotRendered == [trees |-> << >>, activeTreeId |-> NoId]

ImpIdle ==
    /\ trees = << >>
    /\ activeTreeId = NoId
    /\ dbTrees = << >>
    /\ dbActiveTreeId = NoId
    /\ imp = [pc |-> "idle", op |-> "none", newTree |-> NoTree,
              trees |-> << >>, activeTreeId |-> NoId]
    /\ nextTreeId = 1
    /\ nextPersonId = 1
    /\ importLog = <<>>
    /\ pending = <<>>
    /\ rendered = NotRendered

Init == TreeInit /\ GedIdle /\ RelIdle /\ ImpIdle

\* updatePeople(newPeople) with saveTree left out
UpdatePeopleWithoutSave(newPeople) ==
    IF ~hasActiveTree
    THEN UNCHANGED <<people, saved>>
    ELSE /\ people' = newPeople
         /\ UNCHANGED saved

\* updatePeople(newPeople) without its early return
UpdatePeopleWithoutReturn(newPeople) ==
    /\ people' = newPeople
    /\ saved' = [calls |-> saved.calls + 1, people |-> newPeople]

\* updatePeople(newPeople): nothing without an active tree; otherwise the
\* tree with the new list is set and given to saveTree
UpdatePeople(newPeople) ==
    IF ~hasActiveTree
    THEN UNCHANGED <<people, saved>>
    ELSE /\ people' = newPeople
         /\ saved' = [calls |-> saved.calls + 1, people |-> newPeople]

AddPerson ==
    /\ ops < MaxOps
    /\ nextId <= MaxPersons
    /\ \E parentIds \in ParentIdInputs :
          UpdatePeople(AddPersonResult(people, nextId, "Male", parentIds))
    /\ lastOp' = [op |-> "add", id |-> nextId]
    /\ nextId' = nextId + 1
    /\ ops' = ops + 1
    /\ UNCHANGED <<hasActiveTree, gedVars, relVars, impVars>>

\* updatePerson returns before updatePeople when the list has no such person
UpdatePerson ==
    /\ ops < MaxOps
    /\ ops' = ops + 1
    /\ \E personId \in KnownIds, updatedData \in Patches :
        /\ IF FindIndex(people, personId) = 0
           THEN UNCHANGED <<people, saved>>
           ELSE UpdatePeople(UpdatePersonResult(people, personId, updatedData))
        /\ lastOp' = [op |-> "update", id |-> personId]
        /\ UNCHANGED <<nextId, hasActiveTree, gedVars, relVars, impVars>>

\* deletePerson returns before updatePeople when the list has no such person
DeletePerson ==
    /\ ops < MaxOps
    /\ ops' = ops + 1
    /\ \E personId \in KnownIds :
        /\ IF FindIndex(people, personId) = 0
           THEN UNCHANGED <<people, saved>>
           ELSE UpdatePeople(DeletePersonResult(people, personId))
        /\ lastOp' = [op |-> IF FindIndex(people, personId) # 0
                             THEN "delete" ELSE "noop", id |-> personId]
        /\ UNCHANGED <<nextId, hasActiveTree, gedVars, relVars, impVars>>

Next == AddPerson \/ UpdatePerson \/ DeletePerson

\* a tree that holds two persons, and the next addPerson calls
CoupleInit ==
    /\ people \in CoupleLists
    /\ nextId = 3
    /\ lastOp = [op |-> "none", id |-> NoId]
    /\ ops = 0
    /\ hasActiveTree = TRUE
    /\ saved = [calls |-> 0, people |-> people]
    /\ GedIdle
    /\ RelIdle
    /\ ImpIdle

CoupleNext == AddPerson

CoupleSpec == CoupleInit /\ [][CoupleNext]_vars


Spec == Init /\ [][Next]_vars

\* ---------------------------------------------------------- GEDCOM codec
\* A GEDCOM text is a sequence of lines; a line is the sequence of parts that
\* line.trim().split(' ') yields, except that the '/' delimiters of a NAME
\* value are parts of their own.  The blank line is <<"">>.

\* `@I${indiCounter}@` and `@F${famCounter}@`
IndiXref(n) == <<"@I1@", "@I2@", "@I3@", "@I4@", "@I5@", "@I6@">>[n]

FamXref(n) ==
    <<"@F1@", "@F2@", "@F3@", "@F4@", "@F5@", "@F6@", "@F7@", "@F8@",
      "@F9@", "@F10@", "@F11@", "@F12@">>[n]

\* the tags that start and end with '@'
Xrefs == { IndiXref(n) : n \in 1..6 } \cup { FamXref(n) : n \in 1..12 } \cup {"@S1@"}

\* parseInt(parts[0], 10); -1 stands for NaN
ParseLevel(part) ==
    CASE part = "0" -> 0
      [] part = "1" -> 1
      [] part = "2" -> 2
      [] part = "3" -> 3
      [] OTHER -> -1

\* value.split('/'): the number of pieces is one more than the number of '/'
RECURSIVE SplitOnSlash(_)
SplitOnSlash(value) ==
    IF \A i \in 1..Len(value) : value[i] # "/" THEN << value >>
    ELSE LET k == CHOOSE i \in 1..Len(value) :
                      value[i] = "/" /\ \A j \in 1..(i - 1) : value[j] # "/"
         IN  << SubSeq(value, 1, k - 1) >> \o SplitOnSlash(SubSeq(value, k + 1, Len(value)))

\* words.join(' ')
RECURSIVE JoinWords(_)
JoinWords(words) ==
    IF words = <<>> THEN NoText
    ELSE IF Len(words) = 1 THEN words[1]
    ELSE words[1] \o " " \o JoinWords(Tail(words))

\* the text of one name piece after trim(): its words with the blanks
\* between them, the empty string for an empty piece
Trimmed(piece) == JoinWords(piece)

\* parts.slice(2).join(' ')
ValueText(value) == JoinWords(value)

\* value === 'M' ? Male : value === 'F' ? Female : Other
ParseSex(value) ==
    IF value = <<"M">> THEN "Male" ELSE IF value = <<"F">> THEN "Female" ELSE "Other"

NoRecord == [present |-> FALSE]

\* the scanner's state before the first line
ParseStart(firstId) ==
    [people |-> <<>>, fams |-> <<>>, currentIndi |-> NoRecord, currentFam |-> NoRecord,
     context |-> NoText, subContext |-> NoText, uuid |-> firstId, threw |-> FALSE]

NewIndi(id, tag) ==
    [present |-> TRUE, id |-> id, gedcomId |-> tag, firstName |-> NoText,
     lastName |-> NoText, familyCast |-> NoText, gender |-> NoText,
     birthDate |-> NoText, birthPlace |-> NoText,
     deathDate |-> NoText, deathPlace |-> NoText, parentIds |-> <<>>,
     childrenIds |-> <<>>, marriages |-> <<>>]

NewFam(tag) ==
    [present |-> TRUE, gedcomId |-> tag, husb |-> <<>>, wife |-> <<>>,
     children |-> <<>>, date |-> NoText, place |-> NoText]

\* the level-0 branch of the scanning loop
ParseLevel0(st, hasTag, tag, value) ==
    LET st0 == [st EXCEPT !.context = NoText]
    IN  IF ~hasTag THEN [st0 EXCEPT !.threw = TRUE]
        ELSE IF tag \notin Xrefs THEN st0
        ELSE IF value = <<"INDI">>
             THEN [st0 EXCEPT !.people = IF st.currentIndi.present
                                         THEN Append(@, st.currentIndi) ELSE @,
                              !.currentIndi = NewIndi(st.uuid, tag),
                              !.uuid = @ + 1]
        ELSE IF value = <<"FAM">>
             THEN [st0 EXCEPT !.fams = IF st.currentFam.present
                                       THEN Append(@, st.currentFam) ELSE @,
                              !.currentFam = NewFam(tag)]
        ELSE [st0 EXCEPT !.currentIndi = NoRecord, !.currentFam = NoRecord]

\* the level-1 branch: the part that reads an individual's tags
ParseIndiTag(st, tag, value) ==
    IF ~st.currentIndi.present THEN st
    ELSE IF tag = "NAME"
         THEN LET nameParts == SplitOnSlash(value)
              IN  IF Len(nameParts) < 2 THEN [st EXCEPT !.threw = TRUE]
                  ELSE [st EXCEPT !.currentIndi.firstName = Trimmed(nameParts[1]),
                                  !.currentIndi.lastName = Trimmed(nameParts[2])]
    ELSE IF tag = "SEX" THEN [st EXCEPT !.currentIndi.gender = ParseSex(value)]
    ELSE st

\* ParseFamTag with the WIFE reference stored in the husband's slot
ParseFamTagWifeAsHusb(st, tag, value) ==
    IF ~st.currentFam.present THEN st
    ELSE IF tag = "HUSB" THEN [st EXCEPT !.currentFam.husb = value]
    ELSE IF tag = "WIFE" THEN [st EXCEPT !.currentFam.husb = value]
    ELSE IF tag = "CHIL" THEN [st EXCEPT !.currentFam.children = Append(@, value)]
    ELSE IF tag = "MARR" THEN [st EXCEPT !.subContext = "MARR"]
    ELSE st

\* the level-1 branch: the part that reads a family's tags
ParseFamTag(st, tag, value) ==
    IF ~st.currentFam.present THEN st
    ELSE IF tag = "HUSB" THEN [st EXCEPT !.currentFam.husb = value]
    ELSE IF tag = "WIFE" THEN [st EXCEPT !.currentFam.wife = value]
    ELSE IF tag = "CHIL" THEN [st EXCEPT !.currentFam.children = Append(@, value)]
    ELSE IF tag = "MARR" THEN [st EXCEPT !.subContext = "MARR"]
    ELSE st

ParseLevel1(st, tag, value) ==
    LET st0 == [st EXCEPT !.context = tag, !.subContext = NoText]
        st1 == ParseIndiTag(st0, tag, value)
    IN  IF st1.threw THEN st1 ELSE ParseFamTag(st1, tag, value)

\* the level-2 branch: the part that reads an individual's birth and death
ParseIndiDetail(st, tag, value) ==
    IF ~st.currentIndi.present THEN st
    ELSE IF st.context = "BIRT" /\ tag = "DATE"
         THEN [st EXCEPT !.currentIndi.birthDate = ValueText(value)]
    ELSE IF st.context = "BIRT" /\ tag = "PLAC"
         THEN [st EXCEPT !.currentIndi.birthPlace = ValueText(value)]
    ELSE IF st.context = "DEAT" /\ tag = "DATE"
         THEN [st EXCEPT !.currentIndi.deathDate = ValueText(value)]
    ELSE IF st.context = "DEAT" /\ tag = "PLAC"
         THEN [st EXCEPT !.currentIndi.deathPlace = ValueText(value)]
    ELSE st

\* the level-2 branch: the part that reads a family's MARR details
ParseFamDetail(st, tag, value) ==
    IF st.currentFam.present /\ st.subContext = "MARR"
    THEN IF tag = "DATE" THEN [st EXCEPT !.currentFam.date = ValueText(value)]
         ELSE IF tag = "PLAC" THEN [st EXCEPT !.currentFam.place = ValueText(value)]
         ELSE st
    ELSE st

ParseLevel2(st, tag, value) ==
    ParseFamDetail(ParseIndiDetail(st, tag, value), tag, value)

\* one iteration of the scanning loop
ParseLine(st, line) ==
    LET level == ParseLevel(line[1])
        hasTag == Len(line) >= 2
        tag == IF hasTag THEN line[2] ELSE NoText
        value == SubSeq(line, 3, Len(line))
    IN  IF level = 0 THEN ParseLevel0(st, hasTag, tag, value)
        ELSE IF level = 1 THEN ParseLevel1(st, tag, value)
        ELSE IF level = 2 /\ st.context # NoText THEN ParseLevel2(st, tag, value)
        ELSE st

RECURSIVE ParseLines(_, _)
ParseLines(st, lines) ==
    IF lines = <<>> \/ st.threw THEN st
    ELSE ParseLines(ParseLine(st, Head(lines)), Tail(lines))

\* gedcomIdToPersonId[value]: the last individual with that cross-reference;
\* NoId stands for undefined
GedcomIdToPersonId(ps, value) ==
    IF \E i \in 1..Len(ps) : <<ps[i].gedcomId>> = value
    THEN ps[CHOOSE i \in 1..Len(ps) :
               /\ <<ps[i].gedcomId>> = value
               /\ \A j \in (i + 1)..Len(ps) : <<ps[j].gedcomId>> # value].id
    ELSE NoId

PushChild(ps, parentId, childId) ==
    LET i == FindIndex(ps, parentId)
    IN  IF parentId # NoId /\ i # 0 /\ ~Includes(ps[i].childrenIds, childId)
        THEN [ps EXCEPT ![i].childrenIds = Append(@, childId)]
        ELSE ps

\* fam.children.forEach(...)
RECURSIVE ResolveChildren(_, _, _, _)
ResolveChildren(ps, children, husbandId, wifeId) ==
    IF children = <<>> THEN ps
    ELSE LET childId == GedcomIdToPersonId(ps, Head(children))
             c == FindIndex(ps, childId)
             ps1 == IF childId = NoId \/ c = 0 THEN ps
                    ELSE PushChild(
                           PushChild(
                             [ps EXCEPT ![c].parentIds =
                                 SelectSeq(<<husbandId, wifeId>>, LAMBDA id : id # NoId)],
                             husbandId, childId),
                           wifeId, childId)
         IN  ResolveChildren(ps1, Tail(children), husbandId, wifeId)

\* the body of fams.forEach(...)
ResolveFam(ps, fam) ==
    LET husbandId == GedcomIdToPersonId(ps, fam.husb)
        wifeId == GedcomIdToPersonId(ps, fam.wife)
        h == FindIndex(ps, husbandId)
        w == FindIndex(ps, wifeId)
        marriageDetails == [spouseId |-> wifeId, status |-> "Married",
                            date |-> fam.date, place |-> fam.place]
        ps1 == IF husbandId # NoId /\ wifeId # NoId
               THEN LET withHusband == [ps EXCEPT ![h].marriages = Append(@, marriageDetails)]
                    IN  [withHusband EXCEPT ![w].marriages =
                            Append(@, [marriageDetails EXCEPT !.spouseId = husbandId])]
               ELSE ps
    IN  ResolveChildren(ps1, fam.children, husbandId, wifeId)

RECURSIVE ResolveFams(_, _)
ResolveFams(ps, fams) ==
    IF fams = <<>> THEN ps ELSE ResolveFams(ResolveFam(ps, Head(fams)), Tail(fams))

\* people.map(({ gedcomId, ...rest }) => rest)
StripGedcomId(ps) ==
    [i \in 1..Len(ps) |->
        [id |-> ps[i].id, firstName |-> ps[i].firstName, lastName |-> ps[i].lastName,
         familyCast |-> ps[i].familyCast, gender |-> ps[i].gender,
         birthDate |-> ps[i].birthDate, birthPlace |-> ps[i].birthPlace,
         deathDate |-> ps[i].deathDate, deathPlace |-> ps[i].deathPlace,
         parentIds |-> ps[i].parentIds,
         childrenIds |-> ps[i].childrenIds, marriages |-> ps[i].marriages]]

\* parseGedcom(gedcomString); firstId is the first id uuidv4 hands out
ParseGedcom(lines, firstId) ==
    LET scanned == ParseLines(ParseStart(firstId), lines)
        indis == IF scanned.currentIndi.present
                 THEN Append(scanned.people, scanned.currentIndi) ELSE scanned.people
        fams == IF scanned.currentFam.present
                THEN Append(scanned.fams, scanned.currentFam) ELSE scanned.fams
    IN  IF scanned.threw THEN [threw |-> TRUE, people |-> <<>>]
        ELSE [threw |-> FALSE, people |-> StripGedcomId(ResolveFams(indis, fams))]

\* ------------------------------------------------------------- export
\* [p1Id, p2Id].sort().join('-')
SortedIds(p1Id, p2Id) == IF p1Id <= p2Id THEN <<p1Id, p2Id>> ELSE <<p2Id, p1Id>>

\* p1.childrenIds.filter(cId => p2.childrenIds.includes(cId)); no p2, no children
SharedChildren(ps, p1Index, p2Id) ==
    LET p2Index == FindIndex(ps, p2Id)
    IN  IF p2Index = 0 THEN <<>>
        ELSE SelectSeq(ps[p1Index].childrenIds,
                       LAMBDA cId : Includes(ps[p2Index].childrenIds, cId))

\* the marriages the two nested forEach loops do not skip, in the order they
\* meet them: who lists the marriage, which entry, and the family number
RECURSIVE DistinctMarriages(_, _, _, _)
DistinctMarriages(ps, i, j, found) ==
    IF i > Len(ps) THEN found
    ELSE IF j > Len(ps[i].marriages) THEN DistinctMarriages(ps, i + 1, 1, found)
    ELSE LET key == SortedIds(ps[i].id, ps[i].marriages[j].spouseId)
         IN  IF \E k \in 1..Len(found) : found[k].key = key
             THEN DistinctMarriages(ps, i, j + 1, found)
             ELSE DistinctMarriages(ps, i, j + 1,
                     Append(found, [key |-> key, p1Index |-> i,
                                    marriage |-> ps[i].marriages[j],
                                    famCounter |-> Len(found) + 1]))

Families(ps) == DistinctMarriages(ps, 1, 1, <<>>)

\* personIdToFams[p2Id].push(famId) throws when p2Id names no person
ExportThrows(ps) ==
    \E k \in 1..Len(Families(ps)) :
        FindIndex(ps, Families(ps)[k].marriage.spouseId) = 0

\* personIdToFams[id]: the families of id, once for each side it takes
FamsOf(ps, id) ==
    LET fs == Families(ps)
        Sides(k) == (IF ps[fs[k].p1Index].id = id THEN << FamXref(k) >> ELSE <<>>)
                    \o (IF fs[k].marriage.spouseId = id THEN << FamXref(k) >> ELSE <<>>)
        RECURSIVE Collect(_)
        Collect(k) == IF k > Len(fs) THEN <<>> ELSE Sides(k) \o Collect(k + 1)
    IN  Collect(1)

\* personIdToFamc[id]: the last family that lists id as a shared child; 0 if none
FamcOf(ps, id) ==
    LET fs == Families(ps)
        Lists(k) == Includes(SharedChildren(ps, fs[k].p1Index, fs[k].marriage.spouseId), id)
    IN  IF \E k \in 1..Len(fs) : Lists(k)
        THEN CHOOSE k \in 1..Len(fs) : Lists(k) /\ \A m \in (k + 1)..Len(fs) : ~Lists(m)
        ELSE 0

SexPart(gender) ==
    IF gender = "Male" THEN "M" ELSE IF gender = "Female" THEN "F" ELSE "O"

\* personToGedcomId[id]; "undefined" when id names no person
PersonToGedcomId(ps, id) ==
    IF \E i \in 1..Len(ps) : ps[i].id = id
    THEN IndiXref(CHOOSE i \in 1..Len(ps) :
                     ps[i].id = id /\ \A j \in (i + 1)..Len(ps) : ps[j].id # id)
    ELSE "undefined"

\* the words of a text: none for an empty one
Words(text) == IF text = NoText THEN <<>> ELSE << text >>

\* the BIRT or DEAT block of a person: none without date and place
EventLines(tag, date, place) ==
    IF date = NoText /\ place = NoText THEN <<>>
    ELSE << <<"1", tag>> >>
         \o (IF date # NoText THEN << <<"2", "DATE", date>> >> ELSE <<>>)
         \o (IF place # NoText THEN << <<"2", "PLAC", place>> >> ELSE <<>>)

\* the INDI record of the i-th person
IndiLines(ps, i) ==
    LET person == ps[i]
        famc == FamcOf(ps, person.id)
    IN  << <<"0", PersonToGedcomId(ps, person.id), "INDI">> >>
        \o << <<"1", "NAME">> \o Words(person.firstName)
                 \o <<"/">> \o Words(person.lastName) \o Words(person.familyCast)
                 \o <<"/">> >>
        \o (IF person.gender # NoText
            THEN << <<"1", "SEX", SexPart(person.gender)>> >> ELSE <<>>)
        \o EventLines("BIRT", person.birthDate, person.birthPlace)
        \o EventLines("DEAT", person.deathDate, person.deathPlace)
        \o (IF famc # 0 THEN << <<"1", "FAMC", FamXref(famc)>> >> ELSE <<>>)
        \o [k \in 1..Len(FamsOf(ps, person.id)) |-> <<"1", "FAMS", FamsOf(ps, person.id)[k]>>]

\* the FAM record of the k-th distinct marriage
FamLines(ps, k) ==
    LET fam == Families(ps)[k]
        p1 == ps[fam.p1Index]
        p2Id == fam.marriage.spouseId
        p1Ref == PersonToGedcomId(ps, p1.id)
        p2Ref == PersonToGedcomId(ps, p2Id)
        children == SharedChildren(ps, fam.p1Index, p2Id)
    IN  << <<"0", FamXref(k), "FAM">> >>
        \o (IF FindIndex(ps, p2Id) = 0 THEN <<>>
            ELSE (IF p1.gender = "Male"
                  THEN << <<"1", "HUSB", p1Ref>>, <<"1", "WIFE", p2Ref>> >>
                  ELSE << <<"1", "HUSB", p2Ref>>, <<"1", "WIFE", p1Ref>> >>)
              \o (IF fam.marriage.date # NoText \/ fam.marriage.place # NoText
                  THEN << <<"1", "MARR">> >>
                       \o (IF fam.marriage.date # NoText
                           THEN << <<"2", "DATE", fam.marriage.date>> >> ELSE <<>>)
                       \o (IF fam.marriage.place # NoText
                           THEN << <<"2", "PLAC", fam.marriage.place>> >> ELSE <<>>)
                  ELSE <<>>)
              \o [c \in 1..Len(children) |->
                    <<"1", "CHIL", PersonToGedcomId(ps, children[c])>>])

HeaderLines ==
    << <<"0", "HEAD">>, <<"1", "SOUR", "Digital", "Family", "Tree">>, <<"1", "GEDC">>,
       <<"2", "VERS", "5.5.1">>, <<"2", "FORM", "LINEAGE-LINKED">>,
       <<"1", "CHAR", "UTF-8">> >>

RECURSIVE Concat(_)
Concat(seqs) == IF seqs = <<>> THEN <<>> ELSE Head(seqs) \o Concat(Tail(seqs))

\* exportToGedcom(people); the text ends in a line break, so that the last
\* line split() yields is the blank one
ExportToGedcom(ps) ==
    IF ExportThrows(ps) THEN [threw |-> TRUE, lines |-> <<>>]
    ELSE [threw |-> FALSE,
          lines |-> HeaderLines
                    \o Concat([i \in 1..Len(ps) |-> IndiLines(ps, i)])
                    \o Concat([k \in 1..Len(Families(ps)) |-> FamLines(ps, k)])
                    \o << <<"0", "TRLR">>, <<"">> >>]

\* ------------------------------------------------------ codec inputs
\* sets of at most k elements of U
RECURSIVE SubsetsUpTo(_, _)
SubsetsUpTo(U, k) ==
    IF k = 0 THEN { {} }
    ELSE LET smaller == SubsetsUpTo(U, k - 1)
         IN  smaller \cup { s \cup {x} : s \in smaller, x \in U }

\* a link gives one child its one or two parents, marries one couple, or
\* makes one person female or other instead of male
ParentLists(n, c) ==
    { q \in SeqsUpTo(1..n, MaxParents) :
        /\ Len(q) >= 1
        /\ \A i \in 1..Len(q) : q[i] # c
        /\ \A i, j \in 1..Len(q) : i < j => q[i] < q[j] }

ChildLinks(n) ==
    UNION { { [kind |-> "child", who |-> c, parents |-> q] : q \in ParentLists(n, c) } :
            c \in 1..n }

SpouseLinks(n) ==
    { [kind |-> "spouse", who |-> a, with |-> b, details |-> d] :
        a \in 1..n, b \in 1..n, d \in MarriageDetails }

GenderLinks(n) ==
    { [kind |-> "gender", who |-> a, gender |-> g] : a \in 1..n, g \in Gender \ {"Male"} }

Links(n) ==
    ChildLinks(n) \cup { x \in SpouseLinks(n) : x.who < x.with } \cup GenderLinks(n)

\* no child with two parent lists, no couple married twice, no person with
\* two genders
WellFormedLinks(L) ==
    \A x, y \in L :
        (x.kind = y.kind /\ x.who = y.who /\ (x.kind = "spouse" => x.with = y.with))
            => x = y

LinkSets(n) == { L \in SubsetsUpTo(Links(n), MaxLinks) : WellFormedLinks(L) }

\* the ids of S in increasing order
RECURSIVE Ascending(_)
Ascending(S) ==
    IF S = {} THEN <<>>
    ELSE LET m == CHOOSE x \in S : \A y \in S : x <= y
         IN  << m >> \o Ascending(S \ {m})

\* the symmetric person list a set of links describes
PeopleOfLinks(n, L) ==
    [i \in 1..n |->
        [id |-> i, firstName |-> "Ali", lastName |-> "Khan", familyCast |-> NoText,
         birthDate |-> NoText, birthPlace |-> NoText,
         deathDate |-> NoText, deathPlace |-> NoText,
         gender |-> IF \E x \in L : x.kind = "gender" /\ x.who = i
                    THEN (CHOOSE x \in L : x.kind = "gender" /\ x.who = i).gender
                    ELSE "Male",
         parentIds |-> IF \E x \in L : x.kind = "child" /\ x.who = i
                       THEN (CHOOSE x \in L : x.kind = "child" /\ x.who = i).parents
                       ELSE <<>>,
         childrenIds |-> Ascending({ c \in 1..n :
                            \E x \in L : /\ x.kind = "child" /\ x.who = c
                                         /\ Includes(x.parents, i) }),
         marriages |->
            LET mine == { x \in L : x.kind = "spouse" /\ (x.who = i \/ x.with = i) }
                Other(x) == IF x.who = i THEN x.with ELSE x.who
                spouses == Ascending({ Other(x) : x \in mine })
            IN  [k \in 1..Len(spouses) |->
                    Marriage(spouses[k],
                             (CHOOSE x \in mine : Other(x) = spouses[k]).details)]]]

TreeInputs ==
    UNION { { PeopleOfLinks(n, L) : L \in LinkSets(n) } : n \in 1..MaxGedPersons }

\* what the form stores of a person: first name, optional last name and
\* family cast, gender, optional dates and places of birth and death
PersonalDetails ==
    { [firstName |-> "Ali", lastName |-> "Khan", familyCast |-> NoText,
       gender |-> "Male", birthDate |-> NoText, birthPlace |-> NoText,
       deathDate |-> NoText, deathPlace |-> NoText],
      [firstName |-> "Sara", lastName |-> NoText, familyCast |-> NoText,
       gender |-> "Female", birthDate |-> "1990-01-31", birthPlace |-> NoText,
       deathDate |-> NoText, deathPlace |-> NoText],
      [firstName |-> "Noor", lastName |-> "Butt", familyCast |-> NoText,
       gender |-> "Other", birthDate |-> NoText, birthPlace |-> "Lahore",
       deathDate |-> "2020-05-01", deathPlace |-> NoText],
      [firstName |-> "Omar", lastName |-> "Khan", familyCast |-> NoText,
       gender |-> "Male", birthDate |-> "1950-03-02", birthPlace |-> "Lahore",
       deathDate |-> "2001-12-24", deathPlace |-> "Multan"],
      [firstName |-> "Ali", lastName |-> "Khan", familyCast |-> "Rajput",
       gender |-> "Male", birthDate |-> NoText, birthPlace |-> NoText,
       deathDate |-> NoText, deathPlace |-> NoText] }

\* the lists of unrelated persons with such details
DetailInputs ==
    UNION { { [i \in 1..n |->
                 [id |-> i, firstName |-> d[i].firstName, lastName |-> d[i].lastName,
                  familyCast |-> d[i].familyCast, gender |-> d[i].gender,
                  birthDate |-> d[i].birthDate, birthPlace |-> d[i].birthPlace,
                  deathDate |-> d[i].deathDate, deathPlace |-> d[i].deathPlace,
                  parentIds |-> <<>>, childrenIds |-> <<>>, marriages |-> <<>>]] :
              d \in [1..n -> PersonalDetails] } : n \in 1..MaxGedPersons }

\* the lines a file is made of: well-formed records and malformed lines
GedLineInputs ==
    { <<"">>, <<"0">>, <<"0", "@I1@", "INDI">>, <<"0", "@F1@", "FAM">>,
      <<"0", "@S1@", "SOUR">>, <<"1">>, <<"1", "NAME", "Ali", "/", "Khan", "/">>,
      <<"1", "NAME", "Ali">>, <<"1", "FOO", "bar">>, <<"1", "HUSB", "@I1@">>,
      <<"3", "DATE", "1990">>, <<"x", "NAME">> }

FileInputs == SeqsUpTo(GedLineInputs, MaxLines)

\* ---------------------------------------------------------- codec runs
GedInit ==
    /\ EmptyTree
    /\ RelIdle
    /\ ImpIdle
    /\ gedParsed = [threw |-> FALSE, people |-> <<>>]
    /\ \/ /\ gedPc = "tree"
          /\ gedPeople \in TreeInputs \cup DetailInputs
          /\ gedText = [threw |-> FALSE, lines |-> <<>>]
       \/ /\ gedPc = "file"
          /\ gedPeople = <<>>
          /\ gedText \in { [threw |-> FALSE, lines |-> t] : t \in FileInputs }

\* exportGedcom: the tree's people are exported
Export ==
    /\ gedPc = "tree"
    /\ gedText' = ExportToGedcom(gedPeople)
    /\ gedPc' = "exported"
    /\ UNCHANGED <<gedPeople, gedParsed, treeVars, relVars, impVars>>

\* the exported text is parsed again; uuidv4 hands out ids no person has
Reimport ==
    /\ gedPc = "exported"
    /\ ~gedText.threw
    /\ gedParsed' = ParseGedcom(gedText.lines, MaxGedPersons + 1)
    /\ gedPc' = "parsed"
    /\ UNCHANGED <<gedPeople, gedText, treeVars, relVars, impVars>>

\* a file's content is parsed
ParseFile ==
    /\ gedPc = "file"
    /\ gedParsed' = ParseGedcom(gedText.lines, 1)
    /\ gedPc' = "parsed"
    /\ UNCHANGED <<gedPeople, gedText, treeVars, relVars, impVars>>

GedNext == Export \/ Reimport \/ ParseFile

GedSpec == GedInit /\ [][GedNext]_vars

\* ------------------------------------------------- files of families
\* the lines of FAM records: the record's first line, or a HUSB, WIFE or CHIL
\* line that names one of n individuals
FamLineInputs(n) ==
    { <<"0", "@F1@", "FAM">>, <<"0", "@F2@", "FAM">> }
    \cup { <<"1", tag, IndiXref(i)>> : tag \in {"HUSB", "WIFE", "CHIL"}, i \in 1..n }

\* a file of n individuals followed by FAM records of up to MaxFamLines lines
FamilyFiles(n) ==
    { [i \in 1..n |-> <<"0", IndiXref(i), "INDI">>] \o fams \o << <<"0", "TRLR">> >> :
        fams \in { f \in SeqsUpTo(FamLineInputs(n), MaxFamLines) :
                     f # <<>> => f[1][1] = "0" } }

FamilyInit ==
    /\ EmptyTree
    /\ RelIdle
    /\ ImpIdle
    /\ gedParsed = [threw |-> FALSE, people |-> <<>>]
    /\ gedPc = "file"
    /\ gedPeople = <<>>
    /\ gedText \in { [threw |-> FALSE, lines |-> t] : t \in FamilyFiles(MaxGedPersons) }

FamilyNext == ParseFile

FamilySpec == FamilyInit /\ [][FamilyNext]_vars

\* ------------------------------------------------------------ traversals
\* Persons are handed around by id; a path is the sequence of its persons'
\* ids, and the empty sequence stands for null.

\* getPersonById(id, allPeople) !== undefined
Exists(id, allPeople) == FindIndex(allPeople, id) # 0

\* 'great-'.repeat(n)
RECURSIVE Repeat(_, _)
Repeat(s, n) == IF n <= 0 THEN "" ELSE s \o Repeat(s, n - 1)

\* a call before its first statement
Call(fn, person1Id, person2Id) ==
    [TravIdle EXCEPT !.fn = fn, !.pc = "call",
                     !.person1Id = person1Id, !.person2Id = person2Id]

\* a function returns: its locals are gone, its value stays
Returned(st, result) ==
    [TravIdle EXCEPT !.fn = st.fn, !.pc = "done", !.person1Id = st.person1Id,
                     !.person2Id = st.person2Id, !.results = st.results,
                     !.result = result]

\* the end of a loop that fills results: while (queue.length > 0)
LoopOrReturn(st) ==
    IF st.queue = <<>> THEN Returned(st, [NoResult EXCEPT !.type = "list"]) ELSE st

\* getAncestorsHierarchically up to its loop
StartAncestors(st, allPeople) ==
    LET person == allPeople[FindIndex(allPeople, st.person1Id)]
    IN  LoopOrReturn([st EXCEPT
            !.pc = "ancestors",
            !.queue = [k \in 1..Len(person.parentIds) |->
                          [personId |-> person.parentIds[k], level |-> 1]]])

\* the iteration below with results.push outside of if (p)
AncestorsIterationListingMissing(st, allPeople) ==
    LET entry == Head(st.queue)
        personId == entry.personId
        visited == st.visited \cup {personId}
        i == FindIndex(allPeople, personId)
        parentIds == SelectSeq(allPeople[i].parentIds, LAMBDA id : id \notin visited)
        listed == Append(st.results, [id |-> personId, level |-> entry.level])
    IN  LoopOrReturn(
            IF personId = NoId \/ personId \in st.visited
            THEN [st EXCEPT !.queue = Tail(@)]
            ELSE IF i = 0
            THEN [st EXCEPT !.queue = Tail(@), !.visited = visited, !.results = listed]
            ELSE [st EXCEPT
                    !.queue = Tail(@) \o [k \in 1..Len(parentIds) |->
                                  [personId |-> parentIds[k], level |-> entry.level + 1]],
                    !.visited = visited,
                    !.results = listed])

\* one iteration of the loop of getAncestorsHierarchically
AncestorsIteration(st, allPeople) ==
    LET entry == Head(st.queue)
        personId == entry.personId
        visited == st.visited \cup {personId}
        i == FindIndex(allPeople, personId)
        parentIds == SelectSeq(allPeople[i].parentIds, LAMBDA id : id \notin visited)
    IN  LoopOrReturn(
            IF personId = NoId \/ personId \in st.visited
            THEN [st EXCEPT !.queue = Tail(@)]
            ELSE IF i = 0
            THEN [st EXCEPT !.queue = Tail(@), !.visited = visited]
            ELSE [st EXCEPT
                    !.queue = Tail(@) \o [k \in 1..Len(parentIds) |->
                                  [personId |-> parentIds[k], level |-> entry.level + 1]],
                    !.visited = visited,
                    !.results = Append(@, [id |-> personId, level |-> entry.level])])

\* getDescendants up to its loop
StartDescendants(st, allPeople) ==
    LET person == allPeople[FindIndex(allPeople, st.person1Id)]
    IN  LoopOrReturn([st EXCEPT !.pc = "descendants", !.queue = person.childrenIds])

\* one iteration of the loop of getDescendants
DescendantsIteration(st, allPeople) ==
    LET personId == Head(st.queue)
        visited == st.visited \cup {personId}
        i == FindIndex(allPeople, personId)
        childrenIds == SelectSeq(allPeople[i].childrenIds, LAMBDA id : id \notin visited)
    IN  LoopOrReturn(
            IF personId \in st.visited \/ personId = NoId
            THEN [st EXCEPT !.queue = Tail(@)]
            ELSE IF i = 0
            THEN [st EXCEPT !.queue = Tail(@), !.visited = visited]
            ELSE [st EXCEPT !.queue = Tail(@) \o childrenIds,
                            !.visited = visited,
                            !.results = Append(@, personId)])

\* the label getDescendantsWithRelationship gives a descendant
DescendantRelationship(gender, generation) ==
    LET child == CASE gender = "Male" -> <<"Son", "Grandson">>
                   [] gender = "Female" -> <<"Daughter", "Granddaughter">>
                   [] OTHER -> <<"Child", "Grandchild">>
    IN  IF generation = 1 THEN child[1]
        ELSE IF generation = 2 THEN child[2]
        ELSE Repeat("Great-", generation - 2) \o child[2]

\* getDescendantsWithRelationship up to its loop
StartDescendantsWithRelationship(st, allPeople) ==
    LET person == allPeople[FindIndex(allPeople, st.person1Id)]
    IN  LoopOrReturn([st EXCEPT
            !.pc = "descendantsRel",
            !.queue = [k \in 1..Len(person.childrenIds) |->
                          [personId |-> person.childrenIds[k], generation |-> 1]]])

\* the iteration below with the children put in front of the queue
DescendantsWithRelationshipIterationDepthFirst(st, allPeople) ==
    LET entry == Head(st.queue)
        personId == entry.personId
        visited == st.visited \cup {personId}
        i == FindIndex(allPeople, personId)
        childrenIds == SelectSeq(allPeople[i].childrenIds, LAMBDA id : id \notin visited)
    IN  LoopOrReturn(
            IF personId = NoId \/ personId \in st.visited
            THEN [st EXCEPT !.queue = Tail(@)]
            ELSE IF i = 0
            THEN [st EXCEPT !.queue = Tail(@), !.visited = visited]
            ELSE [st EXCEPT
                    !.queue = [k \in 1..Len(childrenIds) |->
                                  [personId |-> childrenIds[k],
                                   generation |-> entry.generation + 1]] \o Tail(@),
                    !.visited = visited,
                    !.results = Append(@,
                        [id |-> personId,
                         relationship |->
                            DescendantRelationship(allPeople[i].gender, entry.generation),
                         generation |-> entry.generation])])

\* one iteration of the loop of getDescendantsWithRelationship
DescendantsWithRelationshipIteration(st, allPeople) ==
    LET entry == Head(st.queue)
        personId == entry.personId
        visited == st.visited \cup {personId}
        i == FindIndex(allPeople, personId)
        childrenIds == SelectSeq(allPeople[i].childrenIds, LAMBDA id : id \notin visited)
    IN  LoopOrReturn(
            IF personId = NoId \/ personId \in st.visited
            THEN [st EXCEPT !.queue = Tail(@)]
            ELSE IF i = 0
            THEN [st EXCEPT !.queue = Tail(@), !.visited = visited]
            ELSE [st EXCEPT
                    !.queue = Tail(@) \o [k \in 1..Len(childrenIds) |->
                                  [personId |-> childrenIds[k],
                                   generation |-> entry.generation + 1]],
                    !.visited = visited,
                    !.results = Append(@,
                        [id |-> personId,
                         relationship |->
                            DescendantRelationship(allPeople[i].gender, entry.generation),
                         generation |-> entry.generation])])

\* the label getAncestorsWithRelationship gives an ancestor
AncestorRelationship(gender, generation, lineage) ==
    LET parent == CASE gender = "Male" -> <<"Father", "Grandfather">>
                    [] gender = "Female" -> <<"Mother", "Grandmother">>
                    [] OTHER -> <<"Parent", "Grandparent">>
        relationship == IF generation = 1 THEN parent[1]
                        ELSE IF generation = 2 THEN parent[2]
                        ELSE Repeat("Great-", generation - 2) \o parent[2]
        lineageSuffix == IF generation > 1 /\ lineage # NoText
                         THEN " (" \o lineage \o ")" ELSE ""
    IN  relationship \o lineageSuffix

\* getAncestorsWithRelationship up to its loop: the parents that exist are
\* queued with the lineage their gender gives
StartAncestorsWithRelationship(st, allPeople) ==
    LET person == allPeople[FindIndex(allPeople, st.person1Id)]
        parentIds == SelectSeq(person.parentIds, LAMBDA id : Exists(id, allPeople))
        Lineage(id) ==
            LET parent == allPeople[FindIndex(allPeople, id)]
            IN  CASE parent.gender = "Male" -> "Paternal"
                  [] parent.gender = "Female" -> "Maternal"
                  [] OTHER -> NoText
    IN  LoopOrReturn([st EXCEPT
            !.pc = "ancestorsRel",
            !.queue = [k \in 1..Len(parentIds) |->
                          [personId |-> parentIds[k], generation |-> 1,
                           lineage |-> Lineage(parentIds[k])]]])

\* one iteration of the loop of getAncestorsWithRelationship
AncestorsWithRelationshipIteration(st, allPeople) ==
    LET entry == Head(st.queue)
        personId == entry.personId
        visited == st.visited \cup {personId}
        i == FindIndex(allPeople, personId)
        parentIds == SelectSeq(allPeople[i].parentIds, LAMBDA id : id \notin visited)
    IN  LoopOrReturn(
            IF personId = NoId \/ personId \in st.visited
            THEN [st EXCEPT !.queue = Tail(@)]
            ELSE IF i = 0
            THEN [st EXCEPT !.queue = Tail(@), !.visited = visited]
            ELSE [st EXCEPT
                    !.queue = Tail(@) \o [k \in 1..Len(parentIds) |->
                                  [personId |-> parentIds[k],
                                   generation |-> entry.generation + 1,
                                   lineage |-> entry.lineage]],
                    !.visited = visited,
                    !.results = Append(@,
                        [id |-> personId,
                         relationship |->
                            AncestorRelationship(allPeople[i].gender, entry.generation,
                                                 entry.lineage)])])

\* getSiblingsWithRelationship(person, allPeople)
GetSiblingsWithRelationship(st, allPeople) ==
    LET person == allPeople[FindIndex(allPeople, st.person1Id)]
        parentIdSet == Range(person.parentIds) \ {NoId}
        siblings == SelectSeq(allPeople, LAMBDA p :
                        /\ p.id # person.id
                        /\ \E k \in 1..Len(p.parentIds) : p.parentIds[k] \in parentIdSet)
        Relationship(p) == CASE p.gender = "Male" -> "Brother"
                             [] p.gender = "Female" -> "Sister"
                             [] OTHER -> "Sibling"
    IN  Returned([st EXCEPT !.results =
                     [k \in 1..Len(siblings) |->
                         [id |-> siblings[k].id,
                          relationship |-> Relationship(siblings[k])]]],
                 [NoResult EXCEPT !.type = "list"])

\* ------------------------------------------------- relationship wording
\* A description is the sequence of its sentences: subject, term, object.
Says(subject, term, object) ==
    << [subject |-> subject, term |-> term, object |-> object] >>

\* ordinal(n) with 'th' after every number
OrdinalAlwaysTh(n) ==
    IF n <= 0 THEN ToString(n) ELSE ToString(n) \o "th"

\* ordinal(n)
Ordinal(n) ==
    LET v == n % 100
        s == <<"st", "nd", "rd">>
    IN  IF n <= 0 THEN ToString(n)
        ELSE IF v >= 20 /\ (v - 20) % 10 \in 1..3 THEN ToString(n) \o s[(v - 20) % 10]
        ELSE IF v \in 1..3 THEN ToString(n) \o s[v]
        ELSE ToString(n) \o "th"

\* the term for an ancestor d generations up
AncestorTerm(gender, d) ==
    LET parent == IF gender = "Male" THEN <<"father", "grandfather">>
                  ELSE <<"mother", "grandmother">>
    IN  IF d = 1 THEN parent[1]
        ELSE IF d = 2 THEN parent[2]
        ELSE Repeat("great-", d - 2) \o parent[2]

\* describeBloodRelationship(person1, person2, lca, path1, path2)
DescribeBloodRelationship(person1, person2, lca, path1, path2) ==
    LET d1 == Len(path1) - 1
        d2 == Len(path2) - 1
        cousinLevel == (IF d1 < d2 THEN d1 ELSE d2) - 1
        removalLevel == IF d1 < d2 THEN d2 - d1 ELSE d1 - d2
        ancestor == IF d1 < d2 THEN person1 ELSE person2
        descendant == IF d1 < d2 THEN person2 ELSE person1
        relation == CASE ancestor.gender = "Male" -> "uncle"
                      [] ancestor.gender = "Female" -> "aunt"
                      [] OTHER -> "aunt/uncle"
        cousinTerm == IF cousinLevel = 1 THEN "first" ELSE Ordinal(cousinLevel)
        times == IF removalLevel = 1 THEN "once"
                 ELSE IF removalLevel = 2 THEN "twice"
                 ELSE ToString(removalLevel) \o " times"
        removalTerm == IF removalLevel > 0 THEN ", " \o times \o " removed" ELSE ""
    IN  IF lca.id = person1.id
        THEN IF d2 = 0 THEN Says(person1.id, "same person", person2.id)
             ELSE Says(person1.id, AncestorTerm(person1.gender, d2), person2.id)
        ELSE IF lca.id = person2.id
        THEN IF d1 = 0 THEN Says(person1.id, "same person", person2.id)
             ELSE Says(person2.id, AncestorTerm(person2.gender, d1), person1.id)
        ELSE IF d1 = 1 /\ d2 = 1
        THEN Says(person1.id, "siblings", person2.id)
        ELSE IF cousinLevel = 0
        THEN Says(ancestor.id,
                  (IF removalLevel > 1 THEN "grand" ELSE "") \o relation,
                  descendant.id)
        ELSE Says(person1.id, cousinTerm \o " cousins" \o removalTerm, person2.id)

\* getPathSegmentDescription(p1, p2)
GetPathSegmentDescription(p1, p2) ==
    LET Term(male, female, other) ==
            CASE p1.gender = "Male" -> male
              [] p1.gender = "Female" -> female
              [] OTHER -> other
    IN  IF Includes(p1.childrenIds, p2.id)
        THEN Term("is the father of", "is the mother of", "is the parent of")
        ELSE IF Includes(p1.parentIds, p2.id)
        THEN Term("is the son of", "is the daughter of", "is the child of")
        ELSE IF HasSpouse(p1, p2.id)
        THEN Term("is the husband of", "is the wife of", "is the spouse of")
        ELSE "is related to"

\* generatePathDescription(path)
GeneratePathDescription(path, allPeople) ==
    LET Person(k) == allPeople[FindIndex(allPeople, path[k])]
    IN  IF Len(path) < 2 THEN Says(path[1], "same person", path[1])
        ELSE [k \in 1..(Len(path) - 1) |->
                 [subject |-> path[k],
                  term |-> GetPathSegmentDescription(Person(k), Person(k + 1)),
                  object |-> path[k + 1]]]

\* ------------------------------------------------------ findGenericPath
\* the loop below queueing path where the code queues newPath
RECURSIVE PushNeighborsKeepingPath(_, _, _, _, _)
PushNeighborsKeepingPath(st, path, neighbors, k, allPeople) ==
    IF k > Len(neighbors) THEN st
    ELSE LET neighborId == neighbors[k]
             seen == [st EXCEPT !.visited = @ \cup {neighborId}]
         IN  IF neighborId \in st.visited
             THEN PushNeighborsKeepingPath(st, path, neighbors, k + 1, allPeople)
             ELSE IF ~Exists(neighborId, allPeople)
             THEN PushNeighborsKeepingPath(seen, path, neighbors, k + 1, allPeople)
             ELSE PushNeighborsKeepingPath(
                     [seen EXCEPT !.queue = Append(@,
                         [personId |-> neighborId, path |-> path])],
                     path, neighbors, k + 1, allPeople)

\* for (const neighborId of neighbors) of findGenericPath: k is the position
RECURSIVE PushNeighbors(_, _, _, _, _)
PushNeighbors(st, path, neighbors, k, allPeople) ==
    IF k > Len(neighbors) THEN st
    ELSE LET neighborId == neighbors[k]
             seen == [st EXCEPT !.visited = @ \cup {neighborId}]
         IN  IF neighborId \in st.visited
             THEN PushNeighbors(st, path, neighbors, k + 1, allPeople)
             ELSE IF ~Exists(neighborId, allPeople)
             THEN PushNeighbors(seen, path, neighbors, k + 1, allPeople)
             ELSE PushNeighbors(
                     [seen EXCEPT !.queue = Append(@,
                         [personId |-> neighborId, path |-> Append(path, neighborId)])],
                     path, neighbors, k + 1, allPeople)

\* findGenericPath up to its loop
StartGenericPath(st) ==
    [Call(st.fn, st.person1Id, st.person2Id) EXCEPT
        !.pc = "generic",
        !.queue = << [personId |-> st.person1Id, path |-> <<st.person1Id>>] >>,
        !.visited = {st.person1Id}]

\* the iteration below with the spouses left out of the neighbors
GenericPathIterationNoSpouses(st, allPeople) ==
    LET entry == Head(st.queue)
        currentPerson == allPeople[FindIndex(allPeople, entry.path[Len(entry.path)])]
        neighbors == currentPerson.parentIds \o currentPerson.childrenIds
        next == PushNeighbors([st EXCEPT !.queue = Tail(@)], entry.path,
                              neighbors, 1, allPeople)
    IN  IF entry.personId = st.person2Id
        THEN Returned(st, [NoResult EXCEPT
                             !.type = "path", !.path = entry.path,
                             !.description = GeneratePathDescription(entry.path, allPeople)])
        ELSE IF next.queue = <<>>
        THEN Returned(st, [NoResult EXCEPT !.type = "none"])
        ELSE next

\* one iteration of the loop of findGenericPath; findRelationship returns its
\* result, or 'none' when the loop ends
GenericPathIteration(st, allPeople) ==
    LET entry == Head(st.queue)
        currentPerson == allPeople[FindIndex(allPeople, entry.path[Len(entry.path)])]
        neighbors == currentPerson.parentIds \o currentPerson.childrenIds
                     \o SpouseIds(currentPerson.marriages)
        next == PushNeighbors([st EXCEPT !.queue = Tail(@)], entry.path,
                              neighbors, 1, allPeople)
    IN  IF entry.personId = st.person2Id
        THEN Returned(st, [NoResult EXCEPT
                             !.type = "path", !.path = entry.path,
                             !.description = GeneratePathDescription(entry.path, allPeople)])
        ELSE IF next.queue = <<>>
        THEN Returned(st, [NoResult EXCEPT !.type = "none"])
        ELSE next

\* ------------------------------------------------------ findLcaAndPaths
\* for (const parentId of person.parentIds) of the second loop
RECURSIVE PushUnvisited(_, _, _)
PushUnvisited(st, parentIds, k) ==
    IF k > Len(parentIds) THEN st
    ELSE PushUnvisited(
            IF parentIds[k] \in st.visited THEN st
            ELSE [st EXCEPT !.visited = @ \cup {parentIds[k]},
                            !.queue = Append(@, parentIds[k])],
            parentIds, k + 1)

\* the rest of an iteration of the second loop: the parents of currentId are
\* queued; findLcaAndPaths returns null when the loop ends, and
\* findRelationship goes on to findGenericPath
ExpandQueue2(st, allPeople) ==
    LET i == FindIndex(allPeople, st.currentId)
        next == IF i = 0 THEN st ELSE PushUnvisited(st, allPeople[i].parentIds, 1)
    IN  IF next.queue = <<>> THEN StartGenericPath(next) ELSE next

\* if (path1 && path2) return { lca, path1, path2 }, which findRelationship
\* turns into the 'blood' result
AfterPaths(st, allPeople) ==
    LET Person(id) == allPeople[FindIndex(allPeople, id)]
    IN  IF st.path1 # <<>> /\ st.path2 # <<>>
        THEN Returned(st, [NoResult EXCEPT
                !.type = "blood", !.lca = st.currentId,
                !.path1 = st.path1, !.path2 = st.path2,
                !.description =
                    DescribeBloodRelationship(Person(st.person1Id), Person(st.person2Id),
                                              Person(st.currentId), st.path1, st.path2)])
        ELSE ExpandQueue2(st, allPeople)

\* getPathToAncestor(startId, endId) up to its loop
PathEntry(startId, endId, allPeople) ==
    IF ~Exists(startId, allPeople)
    THEN [returned |-> TRUE, path |-> <<>>, queue |-> <<>>, visited |-> {}]
    ELSE IF startId = endId
    THEN [returned |-> TRUE, path |-> <<startId>>, queue |-> <<>>, visited |-> {}]
    ELSE [returned |-> FALSE, path |-> <<>>,
          queue |-> << [personId |-> startId, path |-> <<startId>>] >>,
          visited |-> {startId}]

\* const path2 = getPathToAncestor(person2Id, lca.id)
StartPath2(st, allPeople) ==
    LET e == PathEntry(st.person2Id, st.currentId, allPeople)
    IN  IF e.returned THEN AfterPaths([st EXCEPT !.path2 = e.path], allPeople)
        ELSE [st EXCEPT !.pc = "path2", !.pathQueue = e.queue, !.pathVisited = e.visited]

\* const path1 = getPathToAncestor(person1Id, lca.id)
StartPath1(st, allPeople) ==
    LET e == PathEntry(st.person1Id, st.currentId, allPeople)
    IN  IF e.returned THEN StartPath2([st EXCEPT !.path1 = e.path], allPeople)
        ELSE [st EXCEPT !.pc = "path1", !.pathQueue = e.queue, !.pathVisited = e.visited]

\* for (const parentId of currentPerson.parentIds) of getPathToAncestor
RECURSIVE ClimbParents(_, _, _, _, _)
ClimbParents(st, path, parentIds, k, allPeople) ==
    IF k > Len(parentIds) THEN [returned |-> FALSE, path |-> <<>>, st |-> st]
    ELSE LET parentId == parentIds[k]
             seen == [st EXCEPT !.pathVisited = @ \cup {parentId}]
             newPath == Append(path, parentId)
         IN  IF parentId \in st.pathVisited
             THEN ClimbParents(st, path, parentIds, k + 1, allPeople)
             ELSE IF ~Exists(parentId, allPeople)
             THEN ClimbParents(seen, path, parentIds, k + 1, allPeople)
             ELSE IF parentId = st.currentId
             THEN [returned |-> TRUE, path |-> newPath, st |-> seen]
             ELSE ClimbParents(
                     [seen EXCEPT !.pathQueue = Append(@,
                         [personId |-> parentId, path |-> newPath])],
                     path, parentIds, k + 1, allPeople)

\* one iteration of the loop of getPathToAncestor; null when the loop ends
PathIteration(st, allPeople) ==
    LET entry == Head(st.pathQueue)
        popped == [st EXCEPT !.pathQueue = Tail(@)]
        i == FindIndex(allPeople, entry.personId)
        climbed == IF i = 0 THEN [returned |-> FALSE, path |-> <<>>, st |-> popped]
                   ELSE ClimbParents(popped, entry.path, allPeople[i].parentIds, 1,
                                     allPeople)
    IN  IF climbed.returned \/ climbed.st.pathQueue # <<>> THEN climbed
        ELSE [returned |-> TRUE, path |-> <<>>, st |-> climbed.st]

Path1Iteration(st, allPeople) ==
    LET r == PathIteration(st, allPeople)
    IN  IF r.returned THEN StartPath2([r.st EXCEPT !.path1 = r.path], allPeople)
        ELSE r.st

Path2Iteration(st, allPeople) ==
    LET r == PathIteration(st, allPeople)
    IN  IF r.returned THEN AfterPaths([r.st EXCEPT !.path2 = r.path], allPeople)
        ELSE r.st

\* one iteration of the second loop, up to the calls of getPathToAncestor
Queue2Iteration(st, allPeople) ==
    LET popped == [st EXCEPT !.queue = Tail(@), !.currentId = Head(st.queue)]
    IN  IF popped.currentId \in st.p1Ancestors
        THEN StartPath1(popped, allPeople)
        ELSE ExpandQueue2(popped, allPeople)

\* the second loop begins when the first has emptied its queue
StartQueue2(st) ==
    [st EXCEPT !.pc = "queue2", !.queue = <<st.person2Id>>,
               !.visited = {st.person2Id}]

\* one iteration of the first loop, which collects the ancestors of person 1;
\* the same iteration without the visited1 check
Queue1IterationRevisiting(st, allPeople) ==
    LET currentId == Head(st.queue)
        i == FindIndex(allPeople, currentId)
        next == IF i = 0
                THEN [st EXCEPT !.queue = Tail(@), !.visited = @ \cup {currentId}]
                ELSE [st EXCEPT !.queue = Tail(@) \o allPeople[i].parentIds,
                                !.visited = @ \cup {currentId},
                                !.p1Ancestors = @ \cup {currentId}]
    IN  IF next.queue = <<>> THEN StartQueue2(next) ELSE next

Queue1Iteration(st, allPeople) ==
    LET currentId == Head(st.queue)
        i == FindIndex(allPeople, currentId)
        next == IF currentId \in st.visited
                THEN [st EXCEPT !.queue = Tail(@)]
                ELSE IF i = 0
                THEN [st EXCEPT !.queue = Tail(@), !.visited = @ \cup {currentId}]
                ELSE [st EXCEPT !.queue = Tail(@) \o allPeople[i].parentIds,
                                !.visited = @ \cup {currentId},
                                !.p1Ancestors = @ \cup {currentId}]
    IN  IF next.queue = <<>> THEN StartQueue2(next) ELSE next

\* findRelationship up to the first loop of findLcaAndPaths
StartFindRelationship(st, allPeople) ==
    IF \/ st.person1Id = NoId
       \/ st.person2Id = NoId
       \/ st.person1Id = st.person2Id
       \/ ~Exists(st.person1Id, allPeople)
       \/ ~Exists(st.person2Id, allPeople)
    THEN Returned(st, [NoResult EXCEPT !.type = "null"])
    ELSE [st EXCEPT !.pc = "queue1", !.queue = <<st.person1Id>>]

\* a call runs to its return
TraversalStep(st, allPeople) ==
    CASE st.pc = "ancestors" -> AncestorsIteration(st, allPeople)
      [] st.pc = "descendants" -> DescendantsIteration(st, allPeople)
      [] st.pc = "descendantsRel" -> DescendantsWithRelationshipIteration(st, allPeople)
      [] st.pc = "ancestorsRel" -> AncestorsWithRelationshipIteration(st, allPeople)
      [] st.pc = "queue1" -> Queue1Iteration(st, allPeople)
      [] st.pc = "queue2" -> Queue2Iteration(st, allPeople)
      [] st.pc = "path1" -> Path1Iteration(st, allPeople)
      [] st.pc = "path2" -> Path2Iteration(st, allPeople)
      [] st.pc = "generic" -> GenericPathIteration(st, allPeople)

RECURSIVE RunTraversal(_, _)
RunTraversal(st, allPeople) ==
    IF st.pc = "done" THEN st ELSE RunTraversal(TraversalStep(st, allPeople), allPeople)

\* the first statements of the function a call names
StartCall(st, allPeople) ==
    CASE st.fn = "getAncestorsHierarchically" -> StartAncestors(st, allPeople)
      [] st.fn = "getDescendants" -> StartDescendants(st, allPeople)
      [] st.fn = "getDescendantsWithRelationship" ->
            StartDescendantsWithRelationship(st, allPeople)
      [] st.fn = "getAncestorsWithRelationship" ->
            StartAncestorsWithRelationship(st, allPeople)
      [] st.fn = "getSiblingsWithRelationship" ->
            GetSiblingsWithRelationship(st, allPeople)
      [] st.fn = "findRelationship" -> StartFindRelationship(st, allPeople)

\* findRelationship(person1Id, person2Id, allPeople)
FindRelationship(person1Id, person2Id, allPeople) ==
    RunTraversal(StartFindRelationship(Call("findRelationship", person1Id, person2Id),
                                       allPeople), allPeople).result

\* ------------------------------------------------------ traversal inputs
\* persons alternate between the three genders
GenderOf(i) ==
    CASE i % 3 = 1 -> "Male"
      [] i % 3 = 2 -> "Female"
      [] OTHER -> "Other"

\* a link makes one person a parent of another (or of themselves), or
\* marries a couple
RelLinks(n) ==
    { [kind |-> "parent", who |-> c, with |-> p] : c \in 1..n, p \in 1..n }
    \cup { x \in { [kind |-> "spouse", who |-> a, with |-> b] :
                        a \in 1..n, b \in 1..n } : x.who < x.with }

RelLinkSets(n, k) ==
    { L \in SubsetsUpTo(RelLinks(n), k) :
        \A c \in 1..n :
            Cardinality({ x \in L : x.kind = "parent" /\ x.who = c }) <= MaxParents }

\* the person list a set of links describes; parent links may form cycles
GraphOfLinks(n, L) ==
    [i \in 1..n |->
        [id |-> i, gender |-> GenderOf(i),
         parentIds |-> Ascending({ x.with : x \in { y \in L : y.kind = "parent" /\ y.who = i } }),
         childrenIds |-> Ascending({ x.who : x \in { y \in L : y.kind = "parent" /\ y.with = i } }),
         marriages |->
            LET spouses == Ascending(
                    { x.with : x \in { y \in L : y.kind = "spouse" /\ y.who = i } }
                    \cup { x.who : x \in { y \in L : y.kind = "spouse" /\ y.with = i } }
                    \cup { x.with : x \in { y \in L : y.kind = "halfspouse" /\ y.who = i } })
            IN  [k \in 1..Len(spouses) |->
                    Marriage(spouses[k],
                             [status |-> "Married", date |-> NoText, place |-> NoText])]]]

Graphs(n, k) == { GraphOfLinks(n, L) : L \in RelLinkSets(n, k) }

\* a further link: a marriage only one of the two holds
LooseLinks(n) ==
    RelLinks(n)
    \cup { x \in { [kind |-> "halfspouse", who |-> a, with |-> b] :
                        a \in 1..n, b \in 1..n } : x.who # x.with }

LooseLinkSets(n, k) ==
    { L \in SubsetsUpTo(LooseLinks(n), k) :
        \A c \in 1..n :
            Cardinality({ x \in L : x.kind = "parent" /\ x.who = c }) <= MaxParents }

\* the list without the record of one person, whom the others still name
ListOfLinks(n, L, absent) ==
    SelectSeq(GraphOfLinks(n, L), LAMBDA p : p.id # absent)

\* every record is there (absent = NoId), or one is missing
LooseLists(n, k) ==
    { ListOfLinks(n, L, absent) : L \in LooseLinkSets(n, k), absent \in {NoId} \cup 1..n }

\* the calls on such a list: an enumeration for a person of the list,
\* findRelationship for any two of the n ids
LooseCalls(n, allPeople) ==
    { Call(fn, allPeople[i].id, allPeople[i].id) :
        fn \in {"getAncestorsHierarchically", "getAncestorsWithRelationship",
                "getDescendants", "getDescendantsWithRelationship",
                "getSiblingsWithRelationship"},
        i \in 1..Len(allPeople) }
    \cup { Call("findRelationship", p1, p2) : p1 \in 1..n, p2 \in 1..n }

\* two lines of descent from person 1: d1 persons, then d2 persons, each the
\* child of the one above
ChainLinks(d1, d2) ==
    { [kind |-> "parent", who |-> 1 + k, with |-> k] : k \in 1..d1 }
    \cup { [kind |-> "parent", who |-> d1 + 1 + k,
            with |-> IF k = 1 THEN 1 ELSE d1 + k] : k \in 1..d2 }

\* the families of two lines up to depth generations long, as they are or
\* with one further link between any two of their persons
CousinFamilies(depth) ==
    UNION { { GraphOfLinks(1 + d1 + d2, ChainLinks(d1, d2) \cup L) :
                L \in SubsetsUpTo(RelLinks(1 + d1 + d2), 1) } :
            d1 \in 1..depth, d2 \in 1..depth }

\* findRelationship for a person of the one line and a person of the other
CousinCalls(allPeople) ==
    { Call("findRelationship", p1, p2) :
        p1 \in 2..Len(allPeople), p2 \in 2..Len(allPeople) }

\* the calls of a traversal on a list of n persons
TraversalCalls(n) ==
    { Call(fn, p, p) : fn \in {"getAncestorsHierarchically", "getDescendants",
                               "getDescendantsWithRelationship"}, p \in 1..n }
    \cup { Call("findRelationship", p1, p2) : p1 \in 1..n, p2 \in 1..n }

\* ------------------------------------------------------- traversal runs
TravInit ==
    /\ EmptyTree
    /\ GedIdle
    /\ ImpIdle
    /\ relPeople \in Graphs(MaxTravPersons, MaxTravLinks)
    /\ view = ViewIdle
    /\ trav \in TraversalCalls(MaxTravPersons)

\* a loop goes on while its queue fits the memory
Running(pc) ==
    /\ trav.pc = pc
    /\ Len(trav.queue) <= MaxQueue
    /\ Len(trav.pathQueue) <= MaxQueue

GetAncestorsHierarchically ==
    /\ trav.pc = "call" /\ trav.fn = "getAncestorsHierarchically"
    /\ trav' = StartAncestors(trav, relPeople)
    /\ UNCHANGED <<relPeople, view, treeVars, gedVars, impVars>>

AncestorsLoop ==
    /\ Running("ancestors")
    /\ trav' = AncestorsIteration(trav, relPeople)
    /\ UNCHANGED <<relPeople, view, treeVars, gedVars, impVars>>

GetDescendants ==
    /\ trav.pc = "call" /\ trav.fn = "getDescendants"
    /\ trav' = StartDescendants(trav, relPeople)
    /\ UNCHANGED <<relPeople, view, treeVars, gedVars, impVars>>

DescendantsLoop ==
    /\ Running("descendants")
    /\ trav' = DescendantsIteration(trav, relPeople)
    /\ UNCHANGED <<relPeople, view, treeVars, gedVars, impVars>>

GetDescendantsWithRelationship ==
    /\ trav.pc = "call" /\ trav.fn = "getDescendantsWithRelationship"
    /\ trav' = StartDescendantsWithRelationship(trav, relPeople)
    /\ UNCHANGED <<relPeople, view, treeVars, gedVars, impVars>>

DescendantsWithRelationshipLoop ==
    /\ Running("descendantsRel")
    /\ trav' = DescendantsWithRelationshipIteration(trav, relPeople)
    /\ UNCHANGED <<relPeople, view, treeVars, gedVars, impVars>>

FindRelationshipCall ==
    /\ trav.pc = "call" /\ trav.fn = "findRelationship"
    /\ trav' = StartFindRelationship(trav, relPeople)
    /\ UNCHANGED <<relPeople, view, treeVars, gedVars, impVars>>

AncestorsOfPerson1Loop ==
    /\ Running("queue1")
    /\ trav' = Queue1Iteration(trav, relPeople)
    /\ UNCHANGED <<relPeople, view, treeVars, gedVars, impVars>>

CommonAncestorLoop ==
    /\ Running("queue2")
    /\ trav' = Queue2Iteration(trav, relPeople)
    /\ UNCHANGED <<relPeople, view, treeVars, gedVars, impVars>>

Path1Loop ==
    /\ Running("path1")
    /\ trav' = Path1Iteration(trav, relPeople)
    /\ UNCHANGED <<relPeople, view, treeVars, gedVars, impVars>>

Path2Loop ==
    /\ Running("path2")
    /\ trav' = Path2Iteration(trav, relPeople)
    /\ UNCHANGED <<relPeople, view, treeVars, gedVars, impVars>>

GenericPathLoop ==
    /\ Running("generic")
    /\ trav' = GenericPathIteration(trav, relPeople)
    /\ UNCHANGED <<relPeople, view, treeVars, gedVars, impVars>>

TravNext ==
    \/ GetAncestorsHierarchically
    \/ AncestorsLoop
    \/ GetDescendants
    \/ DescendantsLoop
    \/ GetDescendantsWithRelationship
    \/ DescendantsWithRelationshipLoop
    \/ FindRelationshipCall
    \/ AncestorsOfPerson1Loop
    \/ CommonAncestorLoop
    \/ Path1Loop
    \/ Path2Loop
    \/ GenericPathLoop

TravSpec == TravInit /\ [][TravNext]_vars

\* a synchronous call keeps running: no step of it waits for anything
TravFairSpec == TravSpec /\ WF_vars(TravNext)

\* ---------------------------------------------------- relationship runs
RelInit ==
    /\ EmptyTree
    /\ GedIdle
    /\ ImpIdle
    /\ relPeople \in Graphs(MaxRelPersons, MaxRelLinks)
    /\ view = ViewIdle
    /\ trav \in { Call("findRelationship", p1, p2) :
                    p1 \in 1..MaxRelPersons, p2 \in 1..MaxRelPersons }

\* findRelationship from call to return
ResolveRelationship ==
    /\ trav.pc = "call"
    /\ trav' = RunTraversal(StartFindRelationship(trav, relPeople), relPeople)
    /\ UNCHANGED <<relPeople, view, treeVars, gedVars, impVars>>

RelNext == ResolveRelationship

RelSpec == RelInit /\ [][RelNext]_vars

\* ------------------------------------------- runs on lists with loose ends
LooseInit ==
    /\ EmptyTree
    /\ GedIdle
    /\ ImpIdle
    /\ relPeople \in LooseLists(MaxLoosePersons, MaxLooseLinks)
    /\ view = ViewIdle
    /\ trav \in LooseCalls(MaxLoosePersons, relPeople)

\* a traversal from call to return
ReturnFromCall ==
    /\ trav.pc = "call"
    /\ trav' = RunTraversal(StartCall(trav, relPeople), relPeople)
    /\ UNCHANGED <<relPeople, view, treeVars, gedVars, impVars>>

LooseNext == ReturnFromCall

LooseSpec == LooseInit /\ [][LooseNext]_vars

\* ------------------------------------------------------- the tree view
\* parentIds.map(id => getPersonById(id)).find(p => p): the first parent with
\* a record, NoId for undefined
FirstParent(allPeople, parentIds) ==
    LET found == SelectSeq(parentIds, LAMBDA id : FindIndex(allPeople, id) # 0)
    IN  IF found = <<>> THEN NoId ELSE found[1]

\* renderRootId up to its loop
StartRenderRoot(v, allPeople) ==
    LET f == FindIndex(allPeople, v.focusedPersonId)
        parent == FirstParent(allPeople, allPeople[f].parentIds)
        renderRootPerson ==
            IF /\ v.focusedPersonId \in v.ancestorsVisibleFor
               /\ parent # NoId
               /\ parent \in v.childrenVisibleFor
            THEN parent ELSE v.focusedPersonId
    IN  IF v.focusedPersonId = NoId \/ f = 0
        THEN [v EXCEPT !.pc = "done", !.renderRootId = NoId]
        ELSE [v EXCEPT !.pc = "loop", !.finalRoot = renderRootPerson,
                       !.current = renderRootPerson]

\* one test of the while condition of renderRootId and the body it guards
RenderRootIteration(v, allPeople) ==
    LET c == FindIndex(allPeople, v.current)
        parent == FirstParent(allPeople, allPeople[c].parentIds)
    IN  IF v.current \in v.ancestorsVisibleFor /\ parent # NoId
        THEN [v EXCEPT !.finalRoot = parent, !.current = parent]
        ELSE [v EXCEPT !.pc = "done", !.renderRootId = v.finalRoot]

\* new Set(prev) with id deleted if it is there, added if not
Toggled(set, id) == IF id \in set THEN set \ {id} ELSE set \cup {id}

RenderInit ==
    /\ EmptyTree
    /\ GedIdle
    /\ ImpIdle
    /\ relPeople \in Graphs(MaxRelPersons, MaxRelLinks)
    /\ trav = TravIdle
    /\ view = ViewIdle

\* handleRootPersonChange: a person of the list is focused, and the component
\* renders again
HandleRootPersonChange ==
    /\ view.pc = "done"
    /\ \E i \in 1..Len(relPeople) :
          view' = [view EXCEPT !.focusedPersonId = relPeople[i].id,
                               !.childrenVisibleFor = {},
                               !.ancestorsVisibleFor = {},
                               !.pc = "render"]
    /\ UNCHANGED <<relPeople, trav, treeVars, gedVars, impVars>>

\* handleToggleAncestors on the card of the render root
HandleToggleAncestors ==
    /\ view.pc = "done"
    /\ view.renderRootId # NoId
    /\ view' = [view EXCEPT
                  !.ancestorsVisibleFor = Toggled(@, view.renderRootId),
                  !.pc = "render"]
    /\ UNCHANGED <<relPeople, trav, treeVars, gedVars, impVars>>

\* handleToggleChildren on the card of the render root
HandleToggleChildren ==
    /\ view.pc = "done"
    /\ view.renderRootId # NoId
    /\ view' = [view EXCEPT
                  !.childrenVisibleFor = Toggled(@, view.renderRootId),
                  !.pc = "render"]
    /\ UNCHANGED <<relPeople, trav, treeVars, gedVars, impVars>>

\* the render evaluates renderRootId
ComputeRenderRoot ==
    /\ view.pc = "render"
    /\ view' = StartRenderRoot(view, relPeople)
    /\ UNCHANGED <<relPeople, trav, treeVars, gedVars, impVars>>

RenderRootLoop ==
    /\ view.pc = "loop"
    /\ view' = RenderRootIteration(view, relPeople)
    /\ UNCHANGED <<relPeople, trav, treeVars, gedVars, impVars>>

RenderNext ==
    \/ HandleRootPersonChange
    \/ HandleToggleAncestors
    \/ HandleToggleChildren
    \/ ComputeRenderRoot
    \/ RenderRootLoop

RenderSpec == RenderInit /\ [][RenderNext]_vars

\* a render runs to its end: no step of it waits for anything
RenderFairSpec ==
    RenderSpec /\ WF_vars(ComputeRenderRoot) /\ WF_vars(RenderRootLoop)

\* ------------------------------------------------ runs of enumerations
\* the hierarchical ancestors and the labelled descendants of a person of
\* the list
EnumCalls(allPeople) ==
    { Call(fn, allPeople[i].id, allPeople[i].id) :
        fn \in {"getAncestorsHierarchically", "getDescendantsWithRelationship"},
        i \in 1..Len(allPeople) }

\* lists with up to MaxRelLinks links, cycles among them, and lists with
\* loose ends
EnumInit ==
    /\ EmptyTree
    /\ GedIdle
    /\ ImpIdle
    /\ relPeople \in Graphs(MaxRelPersons, MaxRelLinks)
                     \cup LooseLists(MaxLoosePersons, MaxLooseLinks)
    /\ view = ViewIdle
    /\ trav \in EnumCalls(relPeople)

EnumNext == ReturnFromCall

EnumSpec == EnumInit /\ [][EnumNext]_vars

\* --------------------------------------------- exports of loose lists
\* a list with loose ends as the store holds it: every record with the
\* personal details the form requires
StoredPersons(list) ==
    [i \in 1..Len(list) |->
        [id |-> list[i].id, firstName |-> "Ali", lastName |-> "Khan",
         familyCast |-> NoText, gender |-> list[i].gender,
         birthDate |-> NoText, birthPlace |-> NoText,
         deathDate |-> NoText, deathPlace |-> NoText,
         parentIds |-> list[i].parentIds, childrenIds |-> list[i].childrenIds,
         marriages |-> list[i].marriages]]

ExportInputs ==
    { StoredPersons(list) : list \in LooseLists(MaxLoosePersons, MaxLooseLinks) }

ExportInit ==
    /\ EmptyTree
    /\ RelIdle
    /\ ImpIdle
    /\ gedParsed = [threw |-> FALSE, people |-> <<>>]
    /\ gedPc = "tree"
    /\ gedPeople \in ExportInputs
    /\ gedText = [threw |-> FALSE, lines |-> <<>>]

ExportNext == Export

ExportSpec == ExportInit /\ [][ExportNext]_vars

\* ------------------------------------------- runs on two lines of descent
CousinInit ==
    /\ EmptyTree
    /\ GedIdle
    /\ ImpIdle
    /\ relPeople \in CousinFamilies(MaxDepth)
    /\ view = ViewIdle
    /\ trav \in CousinCalls(relPeople)

CousinNext == ResolveRelationship

CousinSpec == CousinInit /\ [][CousinNext]_vars

\* --------------------------------------------------------------- imports
\* A tree's name is its base name and the date of a '(Restored <date>)'
\* suffix, NoText when it has none.
TreeName(base, restored) == [base |-> base, restored |-> restored]

\* { ...trees, [tree.id]: tree }, and store.put(tree)
PutTree(ts, tree) ==
    [id \in (DOMAIN ts) \cup {tree.id} |-> IF id = tree.id THEN tree ELSE ts[id]]

\* the GEDCOM files a user picks: an empty one, a couple, one person, a line
\* without tag
GedcomFiles ==
    { [name |-> "family", lines |-> << <<"">> >>],
      [name |-> "couple", lines |-> << <<"0", "@I1@", "INDI">>,
                                       <<"0", "@I2@", "INDI">>,
                                       <<"0", "@F1@", "FAM">>,
                                       <<"1", "HUSB", "@I1@">>,
                                       <<"1", "WIFE", "@I2@">> >>],
      [name |-> "family", lines |-> << <<"0", "@I1@", "INDI">>,
                                       <<"1", "NAME", "Ali", "/", "Khan", "/">> >>],
      [name |-> "broken", lines |-> << <<"0">> >>] }

\* the backup files a user picks, by what JSON.parse makes of them: a syntax
\* error, null, a number, an object without name, an object whose people is
\* no array, a backup, a backup of a restored tree
BackupFiles ==
    { [json |-> "error", name |-> TreeName(NoText, NoText), isArray |-> FALSE],
      [json |-> "null", name |-> TreeName(NoText, NoText), isArray |-> FALSE],
      [json |-> "number", name |-> TreeName(NoText, NoText), isArray |-> FALSE],
      [json |-> "object", name |-> TreeName(NoText, NoText), isArray |-> TRUE],
      [json |-> "object", name |-> TreeName("Family", NoText), isArray |-> FALSE],
      [json |-> "object", name |-> TreeName("Family", NoText), isArray |-> TRUE],
      [json |-> "object", name |-> TreeName("Family", "2024-01-01"), isArray |-> TRUE] }

\* the date a restored tree is stamped with
Today == "2026-11-02"

\* what IndexedDB holds when the application starts
StoredTrees ==
    { << >>, PutTree(<< >>, [id |-> 1, name |-> TreeName("Old", NoText), people |-> <<>>]) }

ImportInit ==
    /\ EmptyTree
    /\ GedIdle
    /\ RelIdle
    /\ trees = << >>
    /\ activeTreeId = NoId
    /\ dbTrees \in StoredTrees
    /\ dbActiveTreeId \in {NoId} \cup DOMAIN dbTrees
    /\ imp = [pc |-> "loading", op |-> "none", newTree |-> NoTree,
              trees |-> << >>, activeTreeId |-> NoId]
    /\ nextTreeId = 2
    /\ nextPersonId = 1
    /\ importLog = <<>>
    /\ pending = <<>>
    /\ rendered = NotRendered

\* loadData: the stored trees, or a default tree when there are none
LoadData ==
    /\ imp.pc = "loading"
    /\ IF DOMAIN dbTrees # {}
       THEN /\ trees' = dbTrees
            /\ activeTreeId' = IF dbActiveTreeId \in DOMAIN dbTrees THEN dbActiveTreeId
                               ELSE CHOOSE id \in DOMAIN dbTrees :
                                       \A other \in DOMAIN dbTrees : id <= other
            /\ UNCHANGED <<dbTrees, dbActiveTreeId, nextTreeId>>
       ELSE LET defaultTree == [id |-> nextTreeId,
                                name |-> TreeName("My First Tree", NoText),
                                people |-> <<>>]
            IN  /\ dbTrees' = PutTree(dbTrees, defaultTree)
                /\ dbActiveTreeId' = defaultTree.id
                /\ trees' = PutTree(<< >>, defaultTree)
                /\ activeTreeId' = defaultTree.id
                /\ nextTreeId' = nextTreeId + 1
    /\ imp' = [imp EXCEPT !.pc = "ready"]
    /\ UNCHANGED <<nextPersonId, importLog, pending, rendered, treeVars, gedVars, relVars>>

\* no import is between its first and its last statement
NoImportRunning == imp.pc \in {"ready", "failed", "imported"}

\* an import as it starts: what the hook held is remembered
Started(op) ==
    [pc |-> "started", op |-> op, newTree |-> NoTree,
     trees |-> trees, activeTreeId |-> activeTreeId]

\* the action below with parseGedcom numbering the persons of every file from 1
ImportGedcomNumberingFromOne ==
    /\ NoImportRunning
    /\ nextTreeId <= MaxTrees
    /\ \E file \in GedcomFiles :
        LET parsed == ParseGedcom(file.lines, 1)
            newTree == [id |-> nextTreeId, name |-> TreeName(file.name, NoText),
                        people |-> parsed.people]
        IN  IF parsed.threw
            THEN /\ imp' = [Started("importGedcom") EXCEPT !.pc = "failed"]
                 /\ UNCHANGED <<trees, activeTreeId, nextTreeId, nextPersonId,
                                importLog>>
            ELSE /\ imp' = [Started("importGedcom") EXCEPT
                               !.pc = "saveTree", !.newTree = newTree]
                 /\ trees' = PutTree(trees, newTree)
                 /\ activeTreeId' = newTree.id
                 /\ nextTreeId' = nextTreeId + 1
                 /\ nextPersonId' = nextPersonId + Len(parsed.people)
                 /\ importLog' = Append(importLog,
                                        [text |-> file.lines, treeId |-> newTree.id])
    /\ UNCHANGED <<dbTrees, dbActiveTreeId, pending, rendered, treeVars, gedVars, relVars>>

\* importGedcom, reader.onload up to the first await: a parse error is
\* caught; otherwise the tree is set as the active tree. uuidv4 names the
\* tree and, within parseGedcom, every person; the ids of a parse that threw
\* are stored nowhere.
ImportGedcom ==
    /\ NoImportRunning
    /\ nextTreeId <= MaxTrees
    /\ \E file \in GedcomFiles :
        LET parsed == ParseGedcom(file.lines, nextPersonId)
            newTree == [id |-> nextTreeId, name |-> TreeName(file.name, NoText),
                        people |-> parsed.people]
        IN  IF parsed.threw
            THEN /\ imp' = [Started("importGedcom") EXCEPT !.pc = "failed"]
                 /\ UNCHANGED <<trees, activeTreeId, nextTreeId, nextPersonId,
                                importLog>>
            ELSE /\ imp' = [Started("importGedcom") EXCEPT
                               !.pc = "saveTree", !.newTree = newTree]
                 /\ trees' = PutTree(trees, newTree)
                 /\ activeTreeId' = newTree.id
                 /\ nextTreeId' = nextTreeId + 1
                 /\ nextPersonId' = nextPersonId + Len(parsed.people)
                 /\ importLog' = Append(importLog,
                                        [text |-> file.lines, treeId |-> newTree.id])
    /\ UNCHANGED <<dbTrees, dbActiveTreeId, pending, rendered, treeVars, gedVars, relVars>>

\* importBackup, reader.onload up to the first await: a JSON syntax error and
\* an invalid shape are caught; otherwise the tree is set as the active tree
ImportBackup ==
    /\ NoImportRunning
    /\ nextTreeId <= MaxTrees
    /\ \E file \in BackupFiles :
        LET invalid == \/ file.json # "object"
                       \/ file.name.base = NoText
                       \/ ~file.isArray
            newTree == [id |-> nextTreeId, name |-> TreeName(file.name.base, Today),
                        people |-> <<>>]
        IN  IF invalid
            THEN /\ imp' = [Started("importBackup") EXCEPT !.pc = "failed"]
                 /\ UNCHANGED <<trees, activeTreeId, nextTreeId>>
            ELSE /\ imp' = [Started("importBackup") EXCEPT
                               !.pc = "saveTree", !.newTree = newTree]
                 /\ trees' = PutTree(trees, newTree)
                 /\ activeTreeId' = newTree.id
                 /\ nextTreeId' = nextTreeId + 1
    /\ UNCHANGED <<dbTrees, dbActiveTreeId, nextPersonId, importLog,
                   pending, rendered, treeVars, gedVars, relVars>>

\* await saveTree(newTree) resolves
SaveTree ==
    /\ imp.pc = "saveTree"
    /\ dbTrees' = PutTree(dbTrees, imp.newTree)
    /\ imp' = [imp EXCEPT !.pc = "saveAppState"]
    /\ UNCHANGED <<trees, activeTreeId, dbActiveTreeId, nextTreeId,
                   nextPersonId, importLog, pending, rendered, treeVars, gedVars, relVars>>

\* await saveTree(newTree) rejects: the catch block
SaveTreeFails ==
    /\ imp.pc = "saveTree"
    /\ imp' = [imp EXCEPT !.pc = "failed"]
    /\ UNCHANGED <<trees, activeTreeId, dbTrees, dbActiveTreeId, nextTreeId,
                   nextPersonId, importLog, pending, rendered, treeVars, gedVars, relVars>>

\* await saveAppState('activeTreeId', newTreeId) resolves
SaveAppState ==
    /\ imp.pc = "saveAppState"
    /\ dbActiveTreeId' = imp.newTree.id
    /\ imp' = [imp EXCEPT !.pc = "imported"]
    /\ UNCHANGED <<trees, activeTreeId, dbTrees, nextTreeId,
                   nextPersonId, importLog, pending, rendered, treeVars, gedVars, relVars>>

\* await saveAppState('activeTreeId', newTreeId) rejects: the catch block
SaveAppStateFails ==
    /\ imp.pc = "saveAppState"
    /\ imp' = [imp EXCEPT !.pc = "failed"]
    /\ UNCHANGED <<trees, activeTreeId, dbTrees, dbActiveTreeId, nextTreeId,
                   nextPersonId, importLog, pending, rendered, treeVars, gedVars, relVars>>

ImportNext ==
    \/ LoadData
    \/ ImportGedcom
    \/ ImportBackup
    \/ SaveTree
    \/ SaveTreeFails
    \/ SaveAppState
    \/ SaveAppStateFails

ImportSpec == ImportInit /\ [][ImportNext]_vars

\* ------------------------------------------------- calls of the store
\* Several calls may await their writes at once. IndexedDB completes the
\* writes in the order they were issued; a call issues its next write when
\* the one it awaits has completed.
\* delete newTrees[treeId], and store.delete(treeId)
WithoutTree(ts, treeId) == [id \in (DOMAIN ts) \ {treeId} |-> ts[id]]

\* Object.keys(ts)[0]: the tree that entered first; ids grow with time
FirstKey(ts) == CHOOSE id \in DOMAIN ts : \A other \in DOMAIN ts : id <= other

SaveTreeWrite(tree) == [kind |-> "saveTree", tree |-> tree, id |-> tree.id]

DeleteTreeWrite(treeId) == [kind |-> "deleteTreeFromDB", tree |-> NoTree, id |-> treeId]

SaveAppStateWrite(value) == [kind |-> "saveAppState", tree |-> NoTree, id |-> value]

\* a call at its first await: the write it awaits, the writes that follow
Awaiting(op, treeId, writes) ==
    [op |-> op, treeId |-> treeId, activeTreeId |-> rendered.activeTreeId,
     write |-> Head(writes), rest |-> Tail(writes)]

\* the store as the application left it: no tree, or the tree 'Old' as the
\* active tree
StoreInit ==
    /\ EmptyTree
    /\ GedIdle
    /\ RelIdle
    /\ trees = << >>
    /\ activeTreeId = NoId
    /\ dbTrees \in StoredTrees
    /\ dbActiveTreeId = IF DOMAIN dbTrees = {} THEN NoId ELSE FirstKey(dbTrees)
    /\ imp = [pc |-> "loading", op |-> "none", newTree |-> NoTree,
              trees |-> << >>, activeTreeId |-> NoId]
    /\ nextTreeId = 2
    /\ nextPersonId = 1
    /\ importLog = <<>>
    /\ pending = <<>>
    /\ rendered = NotRendered

\* the hook takes a call when loadData is through
TakesCalls == imp.pc = "ready" /\ Len(pending) < MaxPending

\* a handler ran setData: React renders before it takes the next event
RendersAtOnce == rendered' = [trees |-> trees', activeTreeId |-> activeTreeId']

\* setData(prev => ...) with a new tree as the active tree; the tree is then
\* saved and named in the app state
SetNewTree(op, newTree) ==
    /\ trees' = PutTree(trees, newTree)
    /\ activeTreeId' = newTree.id
    /\ nextTreeId' = nextTreeId + 1
    /\ pending' = Append(pending,
                         Awaiting(op, newTree.id,
                                  << SaveTreeWrite(newTree),
                                     SaveAppStateWrite(newTree.id) >>))

CreateNewTree ==
    /\ TakesCalls
    /\ nextTreeId <= MaxStoreTrees
    /\ SetNewTree("createNewTree",
                  [id |-> nextTreeId, name |-> TreeName("New", NoText), people |-> <<>>])
    /\ RendersAtOnce
    /\ UNCHANGED <<dbTrees, dbActiveTreeId, imp, nextPersonId, importLog,
                   treeVars, gedVars, relVars>>

\* switchTree without the test of trees[treeId]
SwitchTreeUnchecked ==
    /\ TakesCalls
    /\ UNCHANGED trees
    /\ \E treeId \in 1..MaxStoreTrees :
          /\ activeTreeId' = treeId
          /\ pending' = Append(pending,
                               Awaiting("switchTree", treeId,
                                        << SaveAppStateWrite(treeId) >>))
    /\ RendersAtOnce
    /\ UNCHANGED <<dbTrees, dbActiveTreeId, imp, nextTreeId, nextPersonId,
                   importLog, treeVars, gedVars, relVars>>

\* switchTree(treeId): nothing for an id that names no tree of the render
SwitchTree ==
    /\ TakesCalls
    /\ UNCHANGED trees
    /\ \E treeId \in 1..MaxStoreTrees :
          IF treeId \in DOMAIN rendered.trees
          THEN /\ activeTreeId' = treeId
               /\ pending' = Append(pending,
                                    Awaiting("switchTree", treeId,
                                             << SaveAppStateWrite(treeId) >>))
               /\ RendersAtOnce
          ELSE UNCHANGED <<activeTreeId, pending, rendered>>
    /\ UNCHANGED <<dbTrees, dbActiveTreeId, imp, nextTreeId, nextPersonId,
                   importLog, treeVars, gedVars, relVars>>

\* deleteTree(treeId): the trees and the activeTreeId of the render, without
\* the tree, replace what the hook holds
DeleteTree ==
    /\ TakesCalls
    /\ \E treeId \in 1..MaxStoreTrees :
          LET newTrees == WithoutTree(rendered.trees, treeId)
              newActiveTreeId ==
                  IF rendered.activeTreeId = treeId
                  THEN (IF DOMAIN newTrees # {} THEN FirstKey(newTrees) ELSE NoId)
                  ELSE rendered.activeTreeId
          IN  /\ trees' = newTrees
              /\ activeTreeId' = newActiveTreeId
              /\ pending' = Append(pending,
                                   Awaiting("deleteTree", treeId,
                                            << DeleteTreeWrite(treeId),
                                               SaveAppStateWrite(newActiveTreeId) >>))
    /\ RendersAtOnce
    /\ UNCHANGED <<dbTrees, dbActiveTreeId, imp, nextTreeId, nextPersonId,
                   importLog, treeVars, gedVars, relVars>>

\* importGedcom, reader.onload, next to other calls: a parse error is caught.
\* The render follows in a task of its own.
ImportGedcomFile ==
    /\ TakesCalls
    /\ nextTreeId <= MaxStoreTrees
    /\ \E file \in GedcomFiles :
        LET parsed == ParseGedcom(file.lines, nextPersonId)
        IN  IF parsed.threw
            THEN UNCHANGED <<trees, activeTreeId, nextTreeId, nextPersonId, pending>>
            ELSE /\ SetNewTree("importGedcom",
                               [id |-> nextTreeId, name |-> TreeName(file.name, NoText),
                                people |-> parsed.people])
                 /\ nextPersonId' = nextPersonId + Len(parsed.people)
    /\ UNCHANGED <<dbTrees, dbActiveTreeId, imp, importLog, rendered,
                   treeVars, gedVars, relVars>>

\* importBackup, reader.onload, next to other calls: an invalid file is caught
ImportBackupFile ==
    /\ TakesCalls
    /\ nextTreeId <= MaxStoreTrees
    /\ \E file \in BackupFiles :
        IF file.json # "object" \/ file.name.base = NoText \/ ~file.isArray
        THEN UNCHANGED <<trees, activeTreeId, nextTreeId, pending>>
        ELSE SetNewTree("importBackup",
                        [id |-> nextTreeId, name |-> TreeName(file.name.base, Today),
                         people |-> <<>>])
    /\ UNCHANGED <<dbTrees, dbActiveTreeId, imp, nextPersonId, importLog, rendered,
                   treeVars, gedVars, relVars>>

\* React renders what loadData or an import has set
Render ==
    /\ imp.pc = "ready"
    /\ rendered # [trees |-> trees, activeTreeId |-> activeTreeId]
    /\ rendered' = [trees |-> trees, activeTreeId |-> activeTreeId]
    /\ UNCHANGED <<trees, activeTreeId, dbTrees, dbActiveTreeId, imp, nextTreeId,
                   nextPersonId, importLog, pending, treeVars, gedVars, relVars>>

\* the oldest write completes, and the call that awaited it goes on: to its
\* next write, or to its end
WriteCompletes ==
    /\ pending # <<>>
    /\ LET call == Head(pending)
           write == call.write
       IN  /\ dbTrees' = CASE write.kind = "saveTree" -> PutTree(dbTrees, write.tree)
                           [] write.kind = "deleteTreeFromDB" -> WithoutTree(dbTrees, write.id)
                           [] OTHER -> dbTrees
           /\ dbActiveTreeId' = IF write.kind = "saveAppState" THEN write.id
                                ELSE dbActiveTreeId
           /\ pending' = IF call.rest = <<>> THEN Tail(pending)
                         ELSE Append(Tail(pending),
                                     [call EXCEPT !.write = Head(call.rest),
                                                  !.rest = Tail(call.rest)])
    /\ UNCHANGED <<trees, activeTreeId, imp, nextTreeId, nextPersonId, importLog,
                   rendered, treeVars, gedVars, relVars>>

StoreNext ==
    \/ LoadData
    \/ CreateNewTree
    \/ SwitchTree
    \/ DeleteTree
    \/ ImportGedcomFile
    \/ ImportBackupFile
    \/ Render
    \/ WriteCompletes

StoreSpec == StoreInit /\ [][StoreNext]_vars

\* ------------------------------------------------- symmetry of a list
IsChildOf(ps, a, b) == Includes(ps[a].childrenIds, ps[b].id)

IsParentOf(ps, a, b) == Includes(ps[b].parentIds, ps[a].id)

ParentChildSymmetric(ps) ==
    \A a, b \in 1..Len(ps) : IsChildOf(ps, a, b) <=> IsParentOf(ps, a, b)

\* every entry a holds for b is matched by an entry b holds for a that carries
\* the same status, date and place
Mirrored(ps, a, b) ==
    \A i \in 1..Len(ps[a].marriages) :
        ps[a].marriages[i].spouseId = ps[b].id =>
            \E j \in 1..Len(ps[b].marriages) :
                ps[b].marriages[j] = [ps[a].marriages[i] EXCEPT !.spouseId = ps[a].id]

MarriageSymmetric(ps) == \A a, b \in 1..Len(ps) : Mirrored(ps, a, b)

References(p, id) ==
    \/ Includes(p.parentIds, id)
    \/ Includes(p.childrenIds, id)
    \/ HasSpouse(p, id)

\* C1: in every tree state reached from the empty tree by addPerson,
\* updatePerson and deletePerson, B.id is in A.childrenIds exactly when A.id
\* is in B.parentIds, for all persons A and B of the tree.
C1_ParentChildSymmetry == ParentChildSymmetric(people)

\* C2: in every tree state reached from the empty tree by addPerson,
\* updatePerson and deletePerson, A holds a marriage entry for B exactly when
\* B holds one for A, and the two entries carry the same status, date and place.
C2_MarriageSymmetry == MarriageSymmetric(people)

\* C3: right after deletePerson(X), X's record is gone and no remaining
\* person's parentIds, childrenIds or marriages names X.
C3_DeleteCascade ==
    lastOp.op = "delete" =>
        /\ FindIndex(people, lastOp.id) = 0
        /\ \A i \in 1..Len(people) : ~References(people[i], lastOp.id)

\* ------------------------------------------------------- GEDCOM round trip
\* links by position in the list, so that two lists compare up to renumbering
ParentEdges(ps) ==
    { <<a, b>> \in (1..Len(ps)) \X (1..Len(ps)) : Includes(ps[b].parentIds, ps[a].id) }

ChildEdges(ps) ==
    { <<a, b>> \in (1..Len(ps)) \X (1..Len(ps)) : Includes(ps[a].childrenIds, ps[b].id) }

SpousePairs(ps) ==
    { {a, b} : <<a, b>> \in { <<a, b>> \in (1..Len(ps)) \X (1..Len(ps)) :
                                  HasSpouse(ps[a], ps[b].id) } }

Symmetric(ps) == ParentChildSymmetric(ps) /\ MarriageSymmetric(ps)

RoundTripDone == gedPc = "parsed" /\ gedPeople # <<>>

\* C5: for a person list that satisfies the symmetry invariants,
\* parseGedcom(exportToGedcom(people)) has exactly the parent-child links of
\* the original, up to renumbering of the ids.
C5_RoundTripParentChild ==
    (RoundTripDone /\ Symmetric(gedPeople)) =>
        /\ ~gedParsed.threw
        /\ Len(gedParsed.people) = Len(gedPeople)
        /\ ParentEdges(gedParsed.people) = ParentEdges(gedPeople)
        /\ ChildEdges(gedParsed.people) = ChildEdges(gedPeople)

\* C6: for a person list that satisfies the symmetry invariants,
\* parseGedcom(exportToGedcom(people)) has exactly the unordered spouse pairs
\* of the original, up to renumbering of the ids.
C6_RoundTripSpousePairs ==
    (RoundTripDone /\ Symmetric(gedPeople)) =>
        /\ ~gedParsed.threw
        /\ Len(gedParsed.people) = Len(gedPeople)
        /\ SpousePairs(gedParsed.people) = SpousePairs(gedPeople)

\* a round trip of a list with a married couple has run
C6_Witness ==
    /\ RoundTripDone
    /\ Symmetric(gedPeople)
    /\ SpousePairs(gedPeople) # {}
    /\ \E i \in 1..Len(gedParsed.people) : gedParsed.people[i].id > MaxGedPersons

\* C7: parseGedcom returns a person list without throwing for every input
\* text; a malformed or unrecognized line is skipped.
C7_ParseNeverThrows == gedPc = "parsed" => ~gedParsed.threw

\* ------------------------------------------------------------- kinship
Ids(ps) == { ps[i].id : i \in 1..Len(ps) }

\* the persons d parent links above id, over persons of the list
RECURSIVE AncestorsAt(_, _, _)
AncestorsAt(ps, id, d) ==
    IF d = 0 THEN {id} \cap Ids(ps)
    ELSE UNION { Range(ps[FindIndex(ps, a)].parentIds) \cap Ids(ps) :
                   a \in AncestorsAt(ps, id, d - 1) }

\* the ancestors of id, id included
AncestorsOf(ps, id) == UNION { AncestorsAt(ps, id, d) : d \in 0..Len(ps) }

\* the least number of parent links from id up to its ancestor a
Distance(ps, a, id) ==
    CHOOSE d \in 0..Len(ps) :
        /\ a \in AncestorsAt(ps, id, d)
        /\ \A e \in 0..(d - 1) : a \notin AncestorsAt(ps, id, e)

\* nobody is their own ancestor
Acyclic(ps) ==
    \A id \in Ids(ps) : \A d \in 1..Len(ps) : id \notin AncestorsAt(ps, id, d)

RelationshipFound == trav.pc = "done" /\ trav.fn = "findRelationship"

\* the terms for an ancestor d generations up
ExpectedAncestorTerms(d) ==
    { (IF d = 1 THEN "" ELSE Repeat("great-", d - 2) \o "grand") \o x :
        x \in {"father", "mother"} }

\* C8: for two distinct persons p1 and p2 of a list, p1 an ancestor of p2 at
\* shortest distance d >= 1, findRelationship(p1, p2) returns 'blood' with
\* lca = p1 and describes p1 as the father/mother (d = 1), grandfather/
\* grandmother (d = 2) or (d-2) times great- grandfather/grandmother of p2;
\* stated here for the lists in which nobody is their own ancestor.
C8_AncestorIsReported ==
    (/\ RelationshipFound
     /\ Acyclic(relPeople)
     /\ trav.person1Id # trav.person2Id
     /\ trav.person1Id \in AncestorsOf(relPeople, trav.person2Id))
    => /\ trav.result.type = "blood"
       /\ trav.result.lca = trav.person1Id
       /\ \E term \in ExpectedAncestorTerms(
                          Distance(relPeople, trav.person1Id, trav.person2Id)) :
              trav.result.description =
                  Says(trav.person1Id, term, trav.person2Id)

\* C9: whenever findRelationship returns 'blood', the lca is a common
\* ancestor of the two persons (each their own ancestor) and is not an
\* ancestor of any other common ancestor of the two; stated here for the
\* lists in which nobody is their own ancestor.
C9_LcaIsNearest ==
    (RelationshipFound /\ trav.result.type = "blood" /\ Acyclic(relPeople))
    => LET common == AncestorsOf(relPeople, trav.person1Id)
                     \cap AncestorsOf(relPeople, trav.person2Id)
       IN  /\ trav.result.lca \in common
           /\ \A c \in common \ {trav.result.lca} :
                  trav.result.lca \notin AncestorsOf(relPeople, c)

\* C4: on every person list, lists whose parent and child links form cycles
\* included, every call of a traversal - ancestor enumeration, descendant
\* enumeration, the search for the common ancestor with its paths, the
\* generic path search - returns.
C4_TraversalsTerminate == <>(trav.pc = "done")

\* a traversal returned on a list where somebody is their own ancestor,
\* having listed every person on the cycle
C4_Witness ==
    /\ trav.pc = "done"
    /\ trav.fn = "getAncestorsHierarchically"
    /\ ~Acyclic(relPeople)
    /\ Len(trav.results) >= 2

\* C10: when importGedcom or importBackup has failed - a parse error, an
\* invalid backup shape, a rejected saveTree or saveAppState - the hook's
\* trees and activeTreeId are what they were when the import started.
C10_FailedImportChangesNothing ==
    imp.pc = "failed" => (trees = imp.trees /\ activeTreeId = imp.activeTreeId)

\* -------------------------------------------------------------- reachability
\* the persons of the list that the record of id names as parent, child or spouse
Neighbors(ps, id) ==
    LET p == ps[FindIndex(ps, id)]
    IN  (Range(p.parentIds) \cup Range(p.childrenIds) \cup Range(SpouseIds(p.marriages)))
        \cap Ids(ps)

\* the persons reached from id over at most k such links
RECURSIVE ReachedWithin(_, _, _)
ReachedWithin(ps, id, k) ==
    IF k = 0 THEN {id} \cap Ids(ps)
    ELSE LET near == ReachedWithin(ps, id, k - 1)
         IN  near \cup UNION { Neighbors(ps, a) : a \in near }

Reaches(ps, a, b) == b \in ReachedWithin(ps, a, Len(ps))

CommonAncestors(ps, a, b) == AncestorsOf(ps, a) \cap AncestorsOf(ps, b)

\* findRelationship returned for two distinct persons of the list
TwoPersonsResolved ==
    /\ RelationshipFound
    /\ trav.person1Id # trav.person2Id
    /\ {trav.person1Id, trav.person2Id} \subseteq Ids(relPeople)

\* C11: for two distinct persons of the list, findRelationship returns
\* 'blood' exactly when they have a common ancestor (each their own
\* ancestor); otherwise 'path' exactly when person 2 is reached from person 1
\* over parent, child and spouse links between persons of the list;
\* otherwise 'none'.
C11_RelationshipType ==
    TwoPersonsResolved =>
        trav.result.type =
            IF CommonAncestors(relPeople, trav.person1Id, trav.person2Id) # {}
            THEN "blood"
            ELSE IF Reaches(relPeople, trav.person1Id, trav.person2Id)
            THEN "path"
            ELSE "none"

\* a marriage only person 2 holds: no path from person 1, hence 'none'
C11_Witness ==
    /\ TwoPersonsResolved
    /\ trav.result.type = "none"
    /\ Reaches(relPeople, trav.person2Id, trav.person1Id)

\* the two persons of a 'blood' result that names neither as the ancestor
BloodRelatives ==
    /\ RelationshipFound
    /\ trav.result.type = "blood"
    /\ trav.result.lca \notin {trav.person1Id, trav.person2Id}

\* least number of parent links from a person of the call up to the lca
Up(personId) == Distance(relPeople, trav.result.lca, personId)

Least(a, b) == IF a < b THEN a ELSE b

Apart(a, b) == IF a < b THEN b - a ELSE a - b

\* 1st, 2nd, 3rd, 4th, ..., 11th, 12th, 13th, ..., 21st, ...
EnglishOrdinal(n) ==
    ToString(n) \o (IF (n % 100) \in 11..13 THEN "th"
                    ELSE CASE n % 10 = 1 -> "st"
                           [] n % 10 = 2 -> "nd"
                           [] n % 10 = 3 -> "rd"
                           [] OTHER -> "th")

\* the wording for cousins d1 and d2 generations below the common ancestor
ExpectedCousins(d1, d2) ==
    (IF Least(d1, d2) - 1 = 1 THEN "first" ELSE EnglishOrdinal(Least(d1, d2) - 1))
    \o " cousins"
    \o CASE Apart(d1, d2) = 0 -> ""
         [] Apart(d1, d2) = 1 -> ", once removed"
         [] Apart(d1, d2) = 2 -> ", twice removed"
         [] OTHER -> ", " \o ToString(Apart(d1, d2)) \o " times removed"

\* C12: for a 'blood' result where neither person is the lca and both are at
\* least two parent links below it (d1 and d2 the least numbers of parent
\* links up to the lca), the description is one sentence about person 1 and
\* person 2 that reads '<c> cousins', c being 'first' at level
\* min(d1, d2) - 1 = 1 and the ordinal of the level above that, followed by
\* ', once removed', ', twice removed' or ', N times removed' for
\* |d1 - d2| = 1, 2 or N > 2, and by nothing for d1 = d2.
C12_CousinWording ==
    (BloodRelatives /\ Least(Up(trav.person1Id), Up(trav.person2Id)) >= 2) =>
        trav.result.description =
            Says(trav.person1Id,
                 ExpectedCousins(Up(trav.person1Id), Up(trav.person2Id)),
                 trav.person2Id)

\* third cousins with a generation between them
C12_Witness ==
    /\ BloodRelatives
    /\ Least(Up(trav.person1Id), Up(trav.person2Id)) = 4
    /\ Apart(Up(trav.person1Id), Up(trav.person2Id)) = 1

\* the parents on record of a person of the list
ParentsOf(ps, id) == Range(ps[FindIndex(ps, id)].parentIds) \cap Ids(ps)

\* two distinct persons with a parent in common, neither an ancestor of the
\* other
ShareAParent(ps, a, b) ==
    /\ a # b
    /\ ParentsOf(ps, a) \cap ParentsOf(ps, b) # {}
    /\ a \notin AncestorsOf(ps, b)
    /\ b \notin AncestorsOf(ps, a)

\* C13: for two distinct persons with at least one parent in common, neither
\* an ancestor of the other, findRelationship returns 'blood' and the
\* description says that person 1 and person 2 are siblings.
C13_SiblingsReported ==
    (RelationshipFound /\ ShareAParent(relPeople, trav.person1Id, trav.person2Id))
    => /\ trav.result.type = "blood"
       /\ trav.result.description = Says(trav.person1Id, "siblings", trav.person2Id)

\* C14: when an importGedcom has succeeded, the hook holds exactly the trees
\* it held when the import started, each unchanged, and one more under an id
\* none of them had, and that tree is the active tree; any two imports of
\* the same text made two distinct trees with as many persons as each other
\* and no person id in common.
C14_ImportAddsOneTree ==
    /\ (imp.pc = "imported" /\ imp.op = "importGedcom") =>
          /\ imp.newTree.id \notin DOMAIN imp.trees
          /\ DOMAIN trees = (DOMAIN imp.trees) \cup {imp.newTree.id}
          /\ \A id \in DOMAIN imp.trees : trees[id] = imp.trees[id]
          /\ activeTreeId = imp.newTree.id
    /\ \A i, j \in 1..Len(importLog) :
          (i < j /\ importLog[i].text = importLog[j].text) =>
              LET first == importLog[i].treeId
                  second == importLog[j].treeId
              IN  /\ first # second
                  /\ {first, second} \subseteq DOMAIN trees
                  /\ Len(trees[first].people) = Len(trees[second].people)
                  /\ Ids(trees[first].people) \cap Ids(trees[second].people) = {}

\* the file of the couple was imported twice, the second import succeeded
C14_Witness ==
    /\ imp.pc = "imported" /\ imp.op = "importGedcom"
    /\ \E i, j \in 1..Len(importLog) :
          /\ i < j
          /\ importLog[i].text = importLog[j].text
          /\ Len(trees[importLog[j].treeId].people) = 2

\* C15: every addPerson, updatePerson and deletePerson that changes the
\* active tree's person list calls saveTree once, with a tree whose people
\* is the list the hook holds after the call.
C15_ChangeIsSaved ==
    [][people' # people =>
          /\ saved'.calls = saved.calls + 1
          /\ saved'.people = people']_vars

\* a deletion changed the list after two other changes, and each was saved
C15_Witness ==
    /\ lastOp.op = "delete"
    /\ saved.calls = 3
    /\ people # <<>>

\* C16: in every state of the active tree that addPerson, updatePerson and
\* deletePerson reach from the empty tree, following parentIds from a person
\* never leads back to that person.
C16_NobodyTheirOwnAncestor == Acyclic(people)

\* the marriage entries a person of the list holds for a spouse
EntriesFor(ps, id, spouseId) ==
    SelectSeq(ps[FindIndex(ps, id)].marriages, LAMBDA m : m.spouseId = spouseId)

\* how often a list of ids holds an id
Occurrences(s, x) == Cardinality({ i \in 1..Len(s) : s[i] = x })

\* C17: after addPerson with exactly two distinct parent ids that exist in
\* the tree, the new person has an id no person had and empty childrenIds
\* and marriages, each parent lists the new id once in childrenIds, and each
\* parent holds exactly one marriage entry for the other: the entry it held
\* before, or a new one with status Married when it held none.
C17_AddWithTwoParents ==
    [][(nextId' # nextId /\ hasActiveTree) =>
          LET new == people'[Len(people')]
              parentIds == new.parentIds
              Wed(a, b) ==
                  LET before == EntriesFor(people, a, b)
                      after == EntriesFor(people', a, b)
                  IN  /\ Len(after) = 1
                      /\ before # <<>> => after = before
                      /\ before = <<>> => after[1].status = "Married"
          IN  (/\ Len(parentIds) = 2
               /\ parentIds[1] # parentIds[2]
               /\ Range(parentIds) \subseteq Ids(people)) =>
                  /\ new.id \notin Ids(people)
                  /\ new.childrenIds = <<>>
                  /\ new.marriages = <<>>
                  /\ \A p \in Range(parentIds) :
                        Occurrences(people'[FindIndex(people', p)].childrenIds,
                                    new.id) = 1
                  /\ Wed(parentIds[1], parentIds[2])
                  /\ Wed(parentIds[2], parentIds[1])]_vars

\* the ids a record of the list names that have no record
Dangling(ps) ==
    UNION { Range(ps[i].parentIds) \cup Range(ps[i].childrenIds)
            \cup Range(SpouseIds(ps[i].marriages)) : i \in 1..Len(ps) }
    \ (Ids(ps) \cup {NoId})

\* the persons a returned call hands back: the entries of an enumeration,
\* the lca, the paths and the persons its description speaks of
PersonsReturned ==
    (IF trav.fn = "getDescendants" THEN Range(trav.results)
     ELSE { trav.results[k].id : k \in 1..Len(trav.results) })
    \cup (IF trav.result.type = "blood" THEN {trav.result.lca} ELSE {})
    \cup Range(trav.result.path1) \cup Range(trav.result.path2)
    \cup Range(trav.result.path)
    \cup UNION { {trav.result.description[k].subject, trav.result.description[k].object} :
                    k \in 1..Len(trav.result.description) }

C19_PathIsShortest ==
    (RelationshipFound /\ trav.result.type = "path") =>
        LET path == trav.result.path
        IN  /\ Len(path) >= 2
            /\ path[1] = trav.person1Id
            /\ path[Len(path)] = trav.person2Id
            /\ \A j, k \in 1..Len(path) : path[j] = path[k] => j = k
            /\ \A k \in 1..(Len(path) - 1) :
                  path[k + 1] \in Neighbors(relPeople, path[k])
            /\ trav.person2Id \notin
                  ReachedWithin(relPeople, trav.person1Id, Len(path) - 2)

\* a path of one link was returned where a third person links the two as well
C19_Witness ==
    /\ RelationshipFound
    /\ trav.result.type = "path"
    /\ Len(trav.result.path) = 2
    /\ \E m \in Ids(relPeople) \ {trav.person1Id, trav.person2Id} :
          /\ m \in Neighbors(relPeople, trav.person1Id)
          /\ trav.person2Id \in Neighbors(relPeople, m)

\* C20: parseGedcom(exportToGedcom(people)) returns as many persons as the
\* list holds, and the i-th of them has the first name, last name, family
\* cast, gender, birth date and death date of the i-th person of the list.
C20_RoundTripDetails ==
    RoundTripDone =>
        /\ ~gedParsed.threw
        /\ Len(gedParsed.people) = Len(gedPeople)
        /\ \A i \in 1..Len(gedPeople) :
              LET in == gedPeople[i]
                  out == gedParsed.people[i]
              IN  /\ out.firstName = in.firstName
                  /\ out.lastName = in.lastName
                  /\ out.familyCast = in.familyCast
                  /\ out.gender = in.gender
                  /\ out.birthDate = in.birthDate
                  /\ out.deathDate = in.deathDate

\* the unordered pairs of spouse ids in the marriages of a list
MarriedPairs(ps) ==
    UNION { { {ps[i].id, ps[i].marriages[j].spouseId} :
                j \in 1..Len(ps[i].marriages) } : i \in 1..Len(ps) }

\* the level-0 FAM records of a text
FamRecords(lines) ==
    { k \in 1..Len(lines) :
        Len(lines[k]) = 3 /\ lines[k][1] = "0" /\ lines[k][3] = "FAM" }

\* C21: exportToGedcom emits exactly one FAM record for each distinct
\* unordered pair of spouse ids in any person's marriages, whether the
\* marriage is recorded on one side or on both.
C21_OneFamPerPair ==
    gedPc = "exported" =>
        /\ ~gedText.threw
        /\ Cardinality(FamRecords(gedText.lines)) = Cardinality(MarriedPairs(gedPeople))

\* C26: exportToGedcom returns a text without throwing for every person
\* list, also when a spouseId or a childrenIds entry names no person.
C26_ExportReturns == gedPc = "exported" => ~gedText.threw

\* C22: updatePerson and deletePerson with an id that is not in the active
\* tree, and addPerson, updatePerson or deletePerson while there is no active
\* tree, leave the list and the active tree as they are and issue no
\* saveTree.
C22_NoOpLeavesAllUnchanged ==
    [][ ( /\ ops' = ops + 1
          /\ \/ ~hasActiveTree
             \/ lastOp'.op = "noop"
             \/ lastOp'.op = "update" /\ FindIndex(people, lastOp'.id) = 0 )
        => ( /\ people' = people
             /\ saved' = saved
             /\ hasActiveTree' = hasActiveTree ) ]_vars

\* a person was added and deleted, and then deleted once more
C22_Witness ==
    /\ hasActiveTree
    /\ lastOp.op = "noop"
    /\ people = <<>>
    /\ saved.calls = 2

\* the records one link away from a set of persons: their parents (up) or
\* their children
OneStepFrom(ps, S, up) ==
    { q \in Ids(ps) :
        \E i \in 1..Len(ps) :
            /\ ps[i].id \in S
            /\ i = FindIndex(ps, ps[i].id)
            /\ q \in Range(IF up THEN ps[i].parentIds ELSE ps[i].childrenIds) }

\* the records exactly k links away from a person
RECURSIVE StepsAway(_, _, _, _)
StepsAway(ps, id, k, up) ==
    IF k = 0 THEN {id} \cap Ids(ps)
    ELSE OneStepFrom(ps, StepsAway(ps, id, k - 1, up), up)

Reachable(ps, id, up) == UNION { StepsAway(ps, id, k, up) : k \in 1..Len(ps) }

MinimalSteps(ps, id, q, up) ==
    CHOOSE k \in 1..Len(ps) :
        /\ q \in StepsAway(ps, id, k, up)
        /\ \A j \in 1..(k - 1) : q \notin StepsAway(ps, id, j, up)

EnumerationReturned ==
    /\ trav.pc = "done"
    /\ trav.fn \in {"getAncestorsHierarchically", "getDescendantsWithRelationship"}

C24_ParsedListIsSymmetric ==
    (gedPc = "parsed" /\ ~gedParsed.threw) => ParentChildSymmetric(gedParsed.people)

\* C25: parseGedcom returns exactly one person for every level-0 INDI record
\* of the text, whatever other level-0 records precede, separate or follow
\* the INDI records.
C25_OnePersonPerIndi ==
    (gedPc = "parsed" /\ gedPeople = <<>> /\ ~gedParsed.threw) =>
        Len(gedParsed.people)
            = Cardinality({ k \in 1..Len(gedText.lines) :
                              /\ Len(gedText.lines[k]) = 3
                              /\ gedText.lines[k][1] = "0"
                              /\ gedText.lines[k][3] = "INDI" })

\* C27: the computation of the render root terminates for every focused
\* person, every set ancestorsVisibleFor that handleToggleAncestors can
\* produce, and every list, also when its parentIds form a cycle.
C27_RenderRootTerminates == (view.pc = "render") ~> (view.pc = "done")

\* C28: for two distinct persons with a common ancestor, findRelationship(a, b)
\* and findRelationship(b, a) select the same lca, and the generational
\* distances of the one call are those of the other call swapped.
C28_RelationshipIsSymmetric ==
    (/\ TwoPersonsResolved
     /\ CommonAncestors(relPeople, trav.person1Id, trav.person2Id) # {})
    => LET other == FindRelationship(trav.person2Id, trav.person1Id, relPeople)
       IN  /\ trav.result.type = "blood"
           /\ other.type = "blood"
           /\ other.lca = trav.result.lca
           /\ Len(other.path1) = Len(trav.result.path2)
           /\ Len(other.path2) = Len(trav.result.path1)

\* C29: for every interleaving of createNewTree, switchTree, deleteTree,
\* importGedcom and importBackup calls whose writes all succeed, once no
\* write is pending the persisted 'activeTreeId' is the activeTreeId of the
\* hook.
C29_PersistedActiveTreeIsCurrent ==
    (imp.pc = "ready" /\ pending = <<>>) => dbActiveTreeId = activeTreeId

\* C30: after the initial load and any calls of createNewTree, switchTree,
\* deleteTree, importGedcom and importBackup, activeTreeId names a tree of
\* the hook whenever it holds one, and is empty only when it holds none.
C30_ActiveTreeExists ==
    imp.pc = "ready" =>
        /\ DOMAIN trees # {} => activeTreeId \in DOMAIN trees
        /\ activeTreeId = NoId => DOMAIN trees = {}

\* the active tree was deleted, and the first of the others took over
C30_Witness ==
    /\ imp.pc = "ready"
    /\ pending # <<>>
    /\ LET call == pending[Len(pending)]
       IN  /\ call.op = "deleteTree"
           /\ call.activeTreeId = call.treeId
           /\ call.treeId \notin DOMAIN trees
           /\ activeTreeId \in DOMAIN trees

====
